---- MODULE Spec2Model ----
(***************************************************************************)
(* Model of the mina-indexer chain-tracking core: the witness tree         *)
(* (IndexerState in src/src/state/mod.rs), the canonicity / block / event  *)
(* columns of IndexerStore (src/src/store.rs) and the block pipeline of    *)
(* add_blocks, the canonical fast path and the directory watcher.          *)
(***************************************************************************)
EXTENDS Integers, Sequences, FiniteSets, TLC

VARIABLES
    phase,              \* IndexerState.phase
    best_tip,           \* IndexerState.best_tip (node id = state hash)
    canonical_tip,      \* IndexerState.canonical_tip
    diffs_map,          \* keys of IndexerState.diffs_map
    root_branch,        \* IndexerState.root_branch
    dangling_branches,  \* IndexerState.dangling_branches (a Vec)
    blocks_processed,   \* IndexerState.blocks_processed
    config,             \* IndexerConfiguration and the kind of BlockParser
    canonical_paths,    \* BlockParser.canonical_paths still to be read
    successive_paths,   \* BlockParser.successive_paths still to be read
    later_paths,        \* block files that reach the watched directory later
    blocks_cf,          \* store column "blocks": state hashes stored
    canonicity_cf,      \* store column "canonicity": height -> state hash
    max_canonical,      \* store key max_canonical_blockchain_length
    ledgers_cf,         \* store column "ledgers": state hash -> ledger
    events_cf,          \* store column "events": seq num -> event
    next_event_seq_num, \* store key next_event_seq_num
    ret,                \* result of the last add_block_to_witness_tree call
    panicked,           \* the process died in a panic (unwrap / expect)
    store_calls,        \* calls that hand the store a block it already holds
    original,           \* the tips and diffs of the process that stopped
    successive_blocks,  \* sync_from_db: the blocks still to be re-offered
    blockchain,         \* the Blockchain of the block-ingestion binary
    log_run,            \* the two runs that the event log test compares
    discovery_run,      \* a call of discovery: its arguments and its result
    ledger,             \* the ledger that the fast path applies its blocks to
    unparsed,           \* malformed block files handed to block_persistence
    conn,               \* a client connection: its request and the answer
    server,             \* the process: its domain socket and its exit code
    ipc,                \* IpcActor: its store handle, the connection handlers
                        \* that run and the secondary directories on disk
    file_check,         \* a file name, and what the checks of it returned
    ledger_walk         \* a ledger store, and how a read of it ended

vars == << phase, best_tip, canonical_tip, diffs_map, root_branch,
           dangling_branches, blocks_processed, config, canonical_paths,
           successive_paths, later_paths, blocks_cf, canonicity_cf,
           max_canonical, ledgers_cf, events_cf, next_event_seq_num, ret,
           panicked, store_calls, original, successive_blocks,
           blockchain, log_run, discovery_run, ledger, unparsed, conn,
           server, ipc, file_check, ledger_walk >>

tree_vars == << best_tip, canonical_tip, diffs_map, root_branch,
                dangling_branches, blocks_processed >>

store_vars == << blocks_cf, canonicity_cf, max_canonical, ledgers_cf,
                 events_cf, next_event_seq_num >>

restart_vars == << store_calls, original, successive_blocks >>

\* the calls of single functions, apart from every run
file_vars == << file_check, ledger_walk >>

pure_vars == << discovery_run, conn, ipc, file_vars >>

\* what only the fast path of the start-up touches
fast_path_vars == << ledger >>

\* what only the watcher's malformed files touch
watch_vars == << unparsed, server >>

\* what no step of the indexer proper touches
other_vars == << blockchain, log_run, pure_vars, fast_path_vars, watch_vars >>

-----------------------------------------------------------------------------
(* Parameters of the indexer, scaled down.                                 *)

\* number of ancestors between the best tip and the canonical tip
MAINNET_CANONICAL_THRESHOLD == 1

\* prune interval handed to IndexerState::new
PRUNE_INTERVAL_DEFAULT == 1

\* transition frontier length k; never below the canonical threshold
MAINNET_TRANSITION_FRONTIER_K == MAINNET_CANONICAL_THRESHOLD + 1

\* a ledger is stored for every canonical block whose length divides by
\* this (100 in the code)
LEDGER_CADENCE == 2

-----------------------------------------------------------------------------
(* The blocks that exist.  A block is named by its state hash; state       *)
(* hashes are ordered as the integers are.                                 *)
(*                                                                         *)
(*      1 -- 2 -- 3 -- 4 -- 6         (lengths 1 2 3 4 5)                   *)
(*                 \                                                       *)
(*                  5 -- 7            (lengths       4 5)                   *)
(*                                                                         *)
(*      ? -- 8 -- 9                   (lengths     3 4), another chain      *)

MAINNET_GENESIS_PREV_STATE_HASH == 0
MAINNET_GENESIS_HASH == 1
NoNode == 0

parent_hash == << 0, 1, 2, 3, 3, 4, 5, 0, 8 >>
blockchain_length == << 1, 2, 3, 4, 4, 5, 5, 3, 4 >>

\* block files of another chain, which only discovery gets to see: a block
\* of length 3 whose parent has no file, and its child
ForeignHashes == {8, 9}

Hashes == DOMAIN parent_hash \ ForeignHashes
MaxLength == 5
Heights == 1..MaxLength

-----------------------------------------------------------------------------
(* Sequence helpers.                                                       *)

Reverse(s) == [i \in 1..Len(s) |-> s[Len(s) + 1 - i]]

skip(s, n) == SubSeq(s, n + 1, Len(s))

RemoveAt(s, i) == SubSeq(s, 1, i - 1) \o SubSeq(s, i + 1, Len(s))

Range(s) == {s[i] : i \in DOMAIN s}

saturating_sub(a, b) == IF a >= b THEN a - b ELSE 0

SetMax(S) == CHOOSE x \in S : \A y \in S : y <= x

-----------------------------------------------------------------------------
(* Branch: an id_tree of blocks.  A branch is [root, up] where up maps     *)
(* every node to its parent node in the tree (NoNode for the root).        *)

Nodes(br) == DOMAIN br.up

\* Branch::new / Branch::new_genesis / Branch::new_testing: a single root
Branch_new(b) == [root |-> b, up |-> (b :> NoNode)]

\* ancestor ids of a node, nearest first, the node itself excluded
RECURSIVE ancestor_ids(_, _)
ancestor_ids(br, n) ==
    IF br.up[n] = NoNode THEN << >>
    ELSE << br.up[n] >> \o ancestor_ids(br, br.up[n])

\* Block.height: the number of ancestors of the node in its branch
height(br, n) == Len(ancestor_ids(br, n))

\* Branch::height: number of levels of the tree
Branch_height(br) == 1 + SetMax({height(br, n) : n \in Nodes(br)})

\* the nodes at or below n (traverse_level_order_ids)
traverse_level_order_ids(br, n) ==
    {m \in Nodes(br) : m = n \/ n \in Range(ancestor_ids(br, m))}

leaves(br) == {n \in Nodes(br) : \A m \in Nodes(br) : br.up[m] # n}

\* Ord for Block: by blockchain length, then by state hash
Block_gt(x, y) ==
    \/ blockchain_length[x] > blockchain_length[y]
    \/ /\ blockchain_length[x] = blockchain_length[y]
       /\ x > y

\* Branch::best_tip_with_id: the greatest leaf
best_tip_with_id(br) ==
    CHOOSE l \in leaves(br) : \A m \in leaves(br) : m = l \/ Block_gt(l, m)

\* Branch::simple_extension: put the block under the node holding its parent
simple_extension(br, b) ==
    IF parent_hash[b] \in Nodes(br)
    THEN [ok |-> TRUE,
          branch |-> [root |-> br.root, up |-> (b :> parent_hash[b]) @@ br.up]]
    ELSE [ok |-> FALSE, branch |-> br]

\* Branch::merge_on: graft the incoming branch under the junction node
merge_on(br, junction_id, incoming) ==
    [root |-> br.root,
     up |-> [n \in Nodes(incoming) |->
                IF n = incoming.root THEN junction_id ELSE incoming.up[n]]
            @@ br.up]

\* Branch::new_root: the block becomes the parent of the old root
new_root(br, b) ==
    [root |-> b,
     up |-> (b :> NoNode)
            @@ [n \in Nodes(br) |-> IF n = br.root THEN b ELSE br.up[n]]]

\* a prune_transition_frontier that drops nothing
prune_transition_frontier_kept(br, k, best) == br

\* Branch::prune_transition_frontier: keep the subtree of the best tip's
\* k-th ancestor
prune_transition_frontier(br, k, best) ==
    LET anc == ancestor_ids(br, best) IN
    IF Len(anc) < k THEN br
    ELSE LET keep == traverse_level_order_ids(br, anc[k]) IN
         [root |-> anc[k],
          up |-> [n \in keep |-> IF n = anc[k] THEN NoNode ELSE br.up[n]]]

-----------------------------------------------------------------------------
(* IndexerStore reads.                                                     *)

\* the genesis ledger.  A ledger is told by the blocks whose changes it
\* holds on top of the genesis ledger, in the order they were applied.
genesis_ledger == << >>

\* Ledger::apply_post_balances
apply_post_balances(l, block) == Append(l, block)

\* Ledger::apply_diff with the diff of a block
apply_diff(l, diff) == Append(l, diff)

\* the loop over to_apply at the end of get_ledger
RECURSIVE apply_blocks(_, _)
apply_blocks(l, to_apply) ==
    IF to_apply = << >> THEN l
    ELSE apply_blocks(apply_post_balances(l, Head(to_apply)),
                      Tail(to_apply))

\* no ledger
NoLedger == [some |-> FALSE, ledger |-> genesis_ledger]

\* the walk of get_ledger with the collected blocks applied highest first
RECURSIVE get_ledger_walk_unreversed(_, _, _)
get_ledger_walk_unreversed(st, state_hash, to_apply) ==
    IF state_hash \in DOMAIN st.ledgers_cf
    THEN [some |-> TRUE,
          ledger |-> apply_blocks(st.ledgers_cf[state_hash], to_apply)]
    ELSE IF state_hash \in st.blocks_cf
    THEN get_ledger_walk_unreversed(st, parent_hash[state_hash],
                                    Append(to_apply, state_hash))
    ELSE NoLedger

\* the walk of get_ledger in the store st: back from state_hash through the
\* stored blocks to a stored ledger, collecting the blocks to apply
RECURSIVE get_ledger_walk(_, _, _)
get_ledger_walk(st, state_hash, to_apply) ==
    IF state_hash \in DOMAIN st.ledgers_cf
    THEN [some |-> TRUE,
          ledger |-> apply_blocks(st.ledgers_cf[state_hash],
                                  Reverse(to_apply))]
    ELSE IF state_hash \in st.blocks_cf
    THEN get_ledger_walk(st, parent_hash[state_hash],
                         Append(to_apply, state_hash))
    ELSE NoLedger

\* LedgerStore::get_ledger
get_ledger(h) ==
    get_ledger_walk([ledgers_cf |-> ledgers_cf, blocks_cf |-> blocks_cf],
                    h, << >>)

get_canonical_hash_at_height(h) == canonicity_cf[h]

-----------------------------------------------------------------------------
(* IndexerState: the witness tree.                                         *)

\* is_reverse_extension: the block is the parent of the branch's root
is_reverse_extension(branch, b) == b = parent_hash[branch.root]

\* is_length_within_root_bounds
is_length_within_root_bounds(b) ==
    blockchain_length[best_tip] + 1 >= blockchain_length[b]

\* update_best_tip taking the incoming block as the best tip whatever its
\* length
update_best_tip_incoming(br, best, incoming) == incoming

\* update_best_tip without its last statement: the conditional assignment
\* alone decides
update_best_tip_conditional(br, best, incoming) ==
    IF \/ blockchain_length[incoming] = blockchain_length[best] + 1
       \/ /\ blockchain_length[incoming] = blockchain_length[best]
          /\ Block_gt(incoming, best)
    THEN incoming ELSE best

\* update_best_tip: the conditional assignment, then the greatest leaf
update_best_tip(br, best, incoming) ==
    LET first == IF \/ blockchain_length[incoming] = blockchain_length[best] + 1
                    \/ /\ blockchain_length[incoming] = blockchain_length[best]
                       /\ Block_gt(incoming, best)
                 THEN incoming ELSE best
    IN best_tip_with_id(br)

\* is_canonical_updatable
is_canonical_updatable(br, best, canon) ==
    height(br, best) - height(br, canon) >= config.canonical_update_threshold

RECURSIVE take_until(_, _)
take_until(s, x) ==
    IF s = << >> \/ Head(s) = x THEN << >>
    ELSE << Head(s) >> \o take_until(Tail(s), x)

\* get_new_canonical_blocks skipping one ancestor more
get_new_canonical_blocks_skip_k(br, best, old_canonical_tip_id) ==
    LET taken == take_until(
                    skip(ancestor_ids(br, best), MAINNET_CANONICAL_THRESHOLD),
                    old_canonical_tip_id)
    IN [canonical_tip |-> IF taken = << >> THEN old_canonical_tip_id
                          ELSE taken[1],
        canonical_blocks |-> Reverse(taken)]

\* get_new_canonical_blocks: the ancestors of the best tip from the
\* threshold-th one down to (excluding) the old canonical tip
get_new_canonical_blocks(br, best, old_canonical_tip_id) ==
    LET taken == take_until(
                    skip(ancestor_ids(br, best),
                         saturating_sub(MAINNET_CANONICAL_THRESHOLD, 1)),
                    old_canonical_tip_id)
    IN [canonical_tip |-> IF taken = << >> THEN old_canonical_tip_id
                          ELSE taken[1],
        canonical_blocks |-> Reverse(taken)]

\* the ledger after apply_diff with the diff of each of the blocks in turn
RECURSIVE apply_diffs(_, _)
apply_diffs(l, blocks) ==
    IF blocks = << >> THEN l
    ELSE apply_diffs(apply_diff(l, Head(blocks)), Tail(blocks))

\* update_ledger_store: apply the diffs of the new canonical blocks to the
\* ledger of the old canonical tip; a block without a diff is a panic
update_ledger_store(old_canonical_tip_hash, canonical_blocks, diffs) ==
    IF ~ get_ledger(old_canonical_tip_hash).some
    THEN [panic |-> FALSE, new_ledgers |-> << >>]
    ELSE LET missing == {i \in DOMAIN canonical_blocks :
                            canonical_blocks[i] \notin diffs}
             upto == IF missing = {} THEN Len(canonical_blocks)
                     ELSE (CHOOSE i \in missing : \A j \in missing : i <= j) - 1
             applied == [i \in 1..upto |->
                            [state_hash |-> canonical_blocks[i],
                             ledger |-> apply_diffs(
                                 get_ledger(old_canonical_tip_hash).ledger,
                                 SubSeq(canonical_blocks, 1, i))]]
         IN [panic |-> missing # {},
             new_ledgers |-> SelectSeq(applied,
                    LAMBDA c : blockchain_length[c.state_hash]
                                    % LEDGER_CADENCE = 0)]

\* clean_up_diffs_map: drop the diffs at or beneath the new canonical tip
clean_up_diffs_map(br, old_canonical_tip_id, canon, diffs) ==
    diffs \ {n \in traverse_level_order_ids(br, old_canonical_tip_id) :
                height(br, n) <= height(br, canon)}

\* update_canonical
update_canonical(br, best, canon, diffs) ==
    IF is_canonical_updatable(br, best, canon)
    THEN LET new == get_new_canonical_blocks(br, best, canon)
             led == update_ledger_store(canon, new.canonical_blocks, diffs)
         IN [updated |-> TRUE,
             panic |-> led.panic,
             new_ledgers |-> led.new_ledgers,
             canonical_tip |-> new.canonical_tip,
             canonical_blocks |-> new.canonical_blocks,
             diffs_map |-> clean_up_diffs_map(br, canon, new.canonical_tip,
                                              diffs)]
    ELSE [updated |-> FALSE, panic |-> FALSE, new_ledgers |-> << >>,
          canonical_tip |-> canon, canonical_blocks |-> << >>,
          diffs_map |-> diffs]

\* prune_root_branch: update the canonical tip, then prune when the root
\* branch is higher than prune_interval * k
prune_root_branch(br, best, canon, diffs) ==
    LET u == update_canonical(br, best, canon, diffs)
        k == MAINNET_TRANSITION_FRONTIER_K
    IN u @@
       [root_branch |->
            IF u.updated /\ Branch_height(br) > config.prune_interval * k
            THEN prune_transition_frontier(br, k, best)
            ELSE br]

\* the indices (from 1) of the dangling branches whose root's parent is b
reverse_indices(dangling, b) ==
    {i \in DOMAIN dangling : is_reverse_extension(dangling[i], b)}

\* the elements of a set of indices in ascending order
RECURSIVE ascending(_)
ascending(S) ==
    IF S = {} THEN << >>
    ELSE LET m == CHOOSE x \in S : \A y \in S : x <= y
         IN << m >> \o ascending(S \ {m})

\* the merge loop of root_extension: merge every dangling branch whose root
\* is a child of the new block
RECURSIVE merge_all(_, _, _, _)
merge_all(br, new_node_id, dangling, idxs) ==
    IF idxs = << >> THEN br
    ELSE merge_all(merge_on(br, new_node_id, dangling[Head(idxs)]),
                   new_node_id, dangling, Tail(idxs))

\* the removal loop of root_extension: remove(index - num_removed) for the
\* indices in ascending order
RECURSIVE remove_indices(_, _, _)
remove_indices(dangling, idxs, num_removed) ==
    IF idxs = << >> THEN dangling
    ELSE remove_indices(RemoveAt(dangling, Head(idxs) - num_removed),
                        Tail(idxs), num_removed + 1)

\* root_extension: extend the root branch forward and merge the dangling
\* branches that the new block connects
root_extension(b) ==
    LET ext == simple_extension(root_branch, b)
        branches_to_remove == ascending(reverse_indices(dangling_branches, b))
        merged == merge_all(ext.branch, b, dangling_branches,
                            branches_to_remove)
        has_merged == branches_to_remove # << >>
        \* merge_on returns the best tip of the branch merged last
        merged_tip_id ==
            best_tip_with_id(
                dangling_branches[branches_to_remove[Len(branches_to_remove)]])
        best1 == IF /\ has_merged
                    /\ \/ blockchain_length[merged_tip_id]
                            > blockchain_length[best_tip]
                       \/ merged_tip_id > best_tip
                 THEN update_best_tip(merged, best_tip, merged_tip_id)
                 ELSE best_tip
    IN [ok |-> ext.ok,
        ext |-> IF has_merged THEN "RootComplex" ELSE "RootSimple",
        root_branch |-> merged,
        best_tip |-> update_best_tip(merged, best1, b),
        dangling_branches |->
            remove_indices(dangling_branches, branches_to_remove, 0)]

\* dangling_extension: the first dangling branch, in Vec order, that the
\* block extends in reverse (checked first) or forward
dangling_extension(b) ==
    LET fits(i) ==
            LET d == dangling_branches[i]
                min_length == blockchain_length[d.root]
                max_length == blockchain_length[best_tip_with_id(d)]
            IN /\ max_length + 1 >= blockchain_length[b]
               /\ blockchain_length[b] + 1 >= min_length
               /\ \/ is_reverse_extension(d, b)
                  \/ simple_extension(d, b).ok
        cands == {i \in DOMAIN dangling_branches : fits(i)}
    IN IF cands = {} THEN [ok |-> FALSE]
       ELSE LET index == CHOOSE i \in cands : \A j \in cands : i <= j
                d == dangling_branches[index]
                rev == is_reverse_extension(d, b)
            IN [ok |-> TRUE,
                index |-> index,
                direction |-> IF rev THEN "Reverse" ELSE "Forward",
                dangling_branches |->
                    [dangling_branches EXCEPT ![index] =
                        IF rev THEN new_root(d, b)
                        ELSE simple_extension(d, b).branch]]

\* the loop of update_dangling over branches_to_update, with the index
\* arithmetic of the code; indices here count from 0 as in the code
RECURSIVE update_loop(_, _, _, _, _, _)
update_loop(dangling, extended_branch, new_node_id, extended_index, to_update, n) ==
    IF n >= Len(to_update)
    THEN [panic |-> FALSE,
          dangling_branches |-> Append(dangling, extended_branch)]
    ELSE LET dangling_branch_index == to_update[n + 1]
             index == IF extended_index < dangling_branch_index
                      THEN dangling_branch_index - n - 1
                      ELSE dangling_branch_index
         IN IF index >= Len(dangling)
            THEN [panic |-> TRUE, dangling_branches |-> dangling]
            ELSE update_loop(RemoveAt(dangling, index + 1),
                             merge_on(extended_branch, new_node_id,
                                      dangling[index + 1]),
                             new_node_id, extended_index, to_update, n + 1)

\* update_dangling without its loop: nothing is merged
update_dangling_unmerged(dangling, b, extended_branch_index, new_node_id, direction) ==
    [panic |-> FALSE, dangling_branches |-> dangling,
     ext |-> IF direction = "Forward" THEN "DanglingSimpleForward"
             ELSE "DanglingSimpleReverse"]

\* update_dangling: merge the dangling branches whose root is a child of
\* the block into the branch that was just extended
update_dangling(dangling, b, extended_branch_index, new_node_id, direction) ==
    LET branches_to_update ==
            ascending({i - 1 : i \in reverse_indices(dangling, b)})
    IN IF branches_to_update # << >>
       THEN update_loop(RemoveAt(dangling, extended_branch_index + 1),
                        dangling[extended_branch_index + 1], new_node_id,
                        extended_branch_index, branches_to_update, 0)
            @@ [ext |-> "DanglingComplex"]
       ELSE [panic |-> FALSE, dangling_branches |-> dangling,
             ext |-> IF direction = "Forward" THEN "DanglingSimpleForward"
                     ELSE "DanglingSimpleReverse"]

\* new_dangling
new_dangling(b) == Append(dangling_branches, Branch_new(b))

\* the state a call leaves when nothing is mutated
unchanged_tree(e) ==
    [ext |-> e, panic |-> FALSE,
     root_branch |-> root_branch, dangling_branches |-> dangling_branches,
     best_tip |-> best_tip, canonical_tip |-> canonical_tip,
     diffs_map |-> diffs_map, blocks_processed |-> blocks_processed,
     canonical_blocks |-> << >>, new_ledgers |-> << >>]

\* the length test with >= for >
too_low_or_level(b) ==
    blockchain_length[root_branch.root] >= blockchain_length[b]

\* the length test at the head of add_block_to_witness_tree
too_low(b) == blockchain_length[root_branch.root] > blockchain_length[b]

\* add_block_to_witness_tree: the extension made and the state after it
add_block_to_witness_tree(b) ==
    IF too_low(b) THEN unchanged_tree("BlockNotAdded")
    ELSE
    LET processed == blocks_processed + 1
        diffs == diffs_map \cup {b}
        re == root_extension(b)
        de == dangling_extension(b)
    IN IF is_length_within_root_bounds(b) /\ re.ok
       THEN LET pr == prune_root_branch(re.root_branch, re.best_tip,
                                        canonical_tip, diffs)
            IN [ext |-> re.ext, panic |-> pr.panic,
                root_branch |-> pr.root_branch,
                dangling_branches |-> re.dangling_branches,
                best_tip |-> re.best_tip,
                canonical_tip |-> pr.canonical_tip,
                diffs_map |-> pr.diffs_map,
                blocks_processed |-> processed,
                canonical_blocks |-> pr.canonical_blocks,
                new_ledgers |-> pr.new_ledgers]
       ELSE IF de.ok
       THEN LET ud == update_dangling(de.dangling_branches, b, de.index - 1,
                                      b, de.direction)
            IN [unchanged_tree(ud.ext) EXCEPT
                    !.panic = ud.panic,
                    !.dangling_branches = ud.dangling_branches,
                    !.diffs_map = diffs,
                    !.blocks_processed = processed]
       ELSE [unchanged_tree("DanglingNew") EXCEPT
                    !.dangling_branches = new_dangling(b),
                    !.diffs_map = diffs,
                    !.blocks_processed = processed]

-----------------------------------------------------------------------------
(* IndexerStore writes.  A store value is the record of its columns.       *)

store ==
    [blocks_cf |-> blocks_cf, canonicity_cf |-> canonicity_cf,
     max_canonical |-> max_canonical, ledgers_cf |-> ledgers_cf,
     events_cf |-> events_cf, next_event_seq_num |-> next_event_seq_num]

NewBlock(h) ==
    [kind |-> "NewBlock", state_hash |-> h,
     blockchain_length |-> blockchain_length[h]]

NewCanonicalBlock(len, h) ==
    [kind |-> "NewCanonicalBlock", state_hash |-> h,
     blockchain_length |-> len]

NewLedger(h) ==
    [kind |-> "NewLedger", state_hash |-> h, blockchain_length |-> 0]

\* add_event without its second write: the pointer stays where it was
add_event_same_seq_num(st, event) ==
    [st EXCEPT !.events_cf = (st.next_event_seq_num :> event) @@ st.events_cf]

\* EventStore::add_event: write the event at next_event_seq_num, then
\* advance the pointer
add_event(st, event) ==
    LET seq_num == st.next_event_seq_num
    IN [st EXCEPT !.events_cf = (seq_num :> event) @@ st.events_cf,
                  !.next_event_seq_num = seq_num + 1]

\* add_block without its event
add_block_unjournalled(st, b) == [st EXCEPT !.blocks_cf = @ \cup {b}]

\* BlockStore::add_block
add_block(st, b) ==
    add_event([st EXCEPT !.blocks_cf = @ \cup {b}], NewBlock(b))

\* CanonicityStore::add_canonical_block
add_canonical_block(st, len, h) ==
    add_event([st EXCEPT !.canonicity_cf[len] = h],
              NewCanonicalBlock(len, h))

\* a set_max_canonical_blockchain_length that writes nothing
set_max_canonical_blockchain_length_skipped(st, len) == st

\* CanonicityStore::set_max_canonical_blockchain_length
set_max_canonical_blockchain_length(st, len) ==
    [st EXCEPT !.max_canonical = len]

\* LedgerStore::add_ledger
add_ledger(st, h, l) ==
    add_event([st EXCEPT !.ledgers_cf = (h :> l) @@ @], NewLedger(h))

\* EventStore::get_event_log
get_event_log ==
    [n \in 1..Cardinality({m \in 0..(next_event_seq_num - 1) :
                             m \in DOMAIN events_cf}) |->
        LET present == {m \in 0..(next_event_seq_num - 1) :
                           m \in DOMAIN events_cf}
        IN events_cf[ascending(present)[n]]]

RECURSIVE add_ledgers(_, _)
add_ledgers(st, hs) ==
    IF hs = << >> THEN st
    ELSE add_ledgers(add_ledger(st, Head(hs).state_hash, Head(hs).ledger),
                     Tail(hs))

\* IndexerState::add_canonical_block_to_store, for each new canonical block
RECURSIVE add_canonical_blocks_to_store(_, _)
add_canonical_blocks_to_store(st, blocks) ==
    IF blocks = << >> THEN st
    ELSE add_canonical_blocks_to_store(
            add_canonical_block(st, blockchain_length[Head(blocks)],
                                Head(blocks)),
            Tail(blocks))

set_store(st) ==
    /\ blocks_cf' = st.blocks_cf
    /\ canonicity_cf' = st.canonicity_cf
    /\ max_canonical' = st.max_canonical
    /\ ledgers_cf' = st.ledgers_cf
    /\ events_cf' = st.events_cf
    /\ next_event_seq_num' = st.next_event_seq_num

set_tree(r) ==
    /\ root_branch' = r.root_branch
    /\ dangling_branches' = r.dangling_branches
    /\ best_tip' = r.best_tip
    /\ canonical_tip' = r.canonical_tip
    /\ diffs_map' = r.diffs_map
    /\ blocks_processed' = r.blocks_processed

-----------------------------------------------------------------------------
(* Start-up.                                                               *)

\* the block reached from b by n parent links, NoNode when the walk leaves
\* the blocks that exist
RECURSIVE nth_parent(_, _)
nth_parent(b, n) ==
    IF b = NoNode \/ n = 0 THEN b ELSE nth_parent(parent_hash[b], n - 1)

\* the highest blocks of the start-up directories: the directory holds
\* their chains; the other blocks reach the directory later
DirTips == {{2}, {4, 5}, {6}, {6, 7}}

\* the block files of a directory that holds the chains of tips from the
\* blocks of length lowest upwards
blocks_dir(lowest, tips) ==
    {b \in Hashes \ {MAINNET_GENESIS_HASH} :
        /\ blockchain_length[b] >= lowest
        /\ \E t \in tips : \E n \in 0..MaxLength : nth_parent(t, n) = b}

\* the parent chain from the lowest block of the directory up to b, lowest
\* first
RECURSIVE chain_to(_, _)
chain_to(dir, b) ==
    IF b \notin dir THEN << >>
    ELSE Append(chain_to(dir, parent_hash[b]), b)

\* discovery, when top is the last of the highest blocks of the directory:
\* the witness tree root is the block canonical_threshold parent links below
\* top, the canonical paths are the walk from the root down to the lowest
\* block of the directory, the recent paths are the blocks above the root,
\* kept only when they start below the highest length of the directory;
\* without such a root every path is recent
discovery(dir, top, canonical_threshold) ==
    LET witness_tree_root == nth_parent(top, canonical_threshold)
        recent_length == blockchain_length[witness_tree_root] + 1
    IN IF witness_tree_root \in dir
       THEN [canonical_paths |-> chain_to(dir, witness_tree_root),
             successive_paths |->
                IF recent_length < blockchain_length[top]
                THEN {b \in dir : blockchain_length[b] >= recent_length}
                ELSE {}]
       ELSE [canonical_paths |-> << >>, successive_paths |-> dir]

\* BlockParser::new: the parsers that discovery can build from the directory
\* (none of its paths when the directory is empty)
BlockParser_new(dir, canonical_threshold) ==
    IF dir = {}
    THEN {[canonical_paths |-> << >>, successive_paths |-> {}]}
    ELSE {discovery(dir, top, canonical_threshold) :
            top \in {b \in dir : \A c \in dir :
                        blockchain_length[c] <= blockchain_length[b]}}

\* BlockParser::new_testing: every path is successive, in glob order
BlockParser_new_testing(dir) ==
    {[canonical_paths |-> << >>, successive_paths |-> dir]}

\* the empty store, before IndexerState::new
empty_store ==
    [blocks_cf |-> {}, canonicity_cf |-> [h \in Heights |-> NoNode],
     max_canonical |-> 0, ledgers_cf |-> << >>, events_cf |-> << >>,
     next_event_seq_num |-> 0]

\* the store writes of IndexerState::new
genesis_store ==
    add_canonical_block(
        set_max_canonical_blockchain_length(
            add_ledger(add_block(empty_store, MAINNET_GENESIS_HASH),
                       MAINNET_GENESIS_HASH, genesis_ledger),
            1),
        1, MAINNET_GENESIS_HASH)

\* no process has stopped yet
NoOriginal ==
    [best_tip |-> NoNode, canonical_tip |-> NoNode, diffs_map |-> {},
     phase |-> "None"]

NoRet ==
    [n |-> 0, block |-> NoNode, ext |-> "None", canonical_blocks |-> << >>,
     best_tip_before |-> NoNode, canonical_tip_before |-> NoNode]

\* the event log test has not run add_blocks to its end
NoLogRun ==
    [run |-> 0, fed |-> << >>, event_log0 |-> << >>, todo |-> << >>,
     step |-> "add_block", canonical_blocks |-> << >>]

\* JOURNAL_SEQ_KEY has no value yet
NoKey == -1

\* the database of the block-ingestion binary before its first write
empty_db == [blocks |-> {}, journal |-> << >>, journal_seq_key |-> NoKey]

\* load_journal_seq: the stored journal_seq_key, 0 when there is none
load_journal_seq(db) ==
    IF db.journal_seq_key = NoKey THEN 0 ELSE db.journal_seq_key

\* no call of Blockchain::add_block has been made
NoAttempt ==
    [result |-> "None", seq_num |-> 0, journal_seq_before |-> 0,
     journal_seq_key_before |-> NoKey, failed_seq_num |-> NoKey]

\* Blockchain::new over database db, at the start of block_persistence:
\* the blocks of the directory are received from the first one again; last
\* is the latest call of add_block made on the database
Blockchain_new(db, last) ==
    [journal_seq |-> load_journal_seq(db), db |-> db, received |-> 0,
     exited |-> FALSE, last |-> last]

\* no call of discovery has been made
NoDiscovery ==
    [paths |-> << >>, canonical_threshold |-> 0, min_len_filter |-> 0,
     max_len_filter |-> 0, called |-> FALSE, deep_canonical |-> << >>,
     recent |-> << >>, orphaned |-> << >>]

\* the process before the unix domain server has started
NoExit == -1
NoServer == [socket |-> FALSE, started |-> FALSE, exit_code |-> NoExit]

\* no ledger has been read from a store of separate columns
NoLedgerWalk ==
    [ledgers |-> {}, block_ledger_diff |-> {}, block_parent_hash |-> {},
     state_hash |-> 0, called |-> FALSE, terminates |-> FALSE,
     some |-> FALSE, diffs |-> << >>]

\* no file name has been checked
NoFileCheck ==
    [name |-> << >>, called |-> FALSE, valid |-> FALSE, panic |-> FALSE,
     some |-> FALSE, length |-> -1]

\* the directory of the primary store
PRIMARY_PATH == 0

\* IpcActor::new with the read-only store of start_unix_domain_server, which
\* lives in the first fresh subdirectory
IpcActor_new ==
    [store |-> 1, dirs |-> {1}, handlers |-> {}, accepted |-> 0,
     primary |-> TRUE]

\* no client has connected
NoConn ==
    [command |-> "none", pk_valid |-> TRUE, state_hash_valid |-> TRUE,
     end_state_hash_valid |-> TRUE, tx_hash_valid |-> TRUE, height |-> 0,
     best_tip_length |-> 1, best_ledger |-> TRUE, handled |-> FALSE,
     response |-> "none", store_reads |-> << >>]

\* IndexerState::new with a BlockParser over the start-up directory
InitIndexer ==
    /\ phase = "InitializingFromBlockDir"
    /\ root_branch = Branch_new(MAINNET_GENESIS_HASH)
    /\ best_tip = MAINNET_GENESIS_HASH
    /\ canonical_tip = MAINNET_GENESIS_HASH
    /\ diffs_map = {MAINNET_GENESIS_HASH}
    /\ dangling_branches = << >>
    /\ blocks_processed = 0
    /\ \E ct \in {MAINNET_CANONICAL_THRESHOLD, MAINNET_CANONICAL_THRESHOLD + 1},
          cut \in 1..(MAINNET_CANONICAL_THRESHOLD + 2),
          lowest \in {2, 3}, tips \in DirTips,
          length_sorted \in BOOLEAN :
          \E parser \in IF length_sorted
                         THEN BlockParser_new(blocks_dir(lowest, tips), ct)
                         ELSE BlockParser_new_testing(blocks_dir(lowest, tips)) :
          /\ canonical_paths = parser.canonical_paths
          /\ successive_paths = parser.successive_paths
          /\ later_paths = (Hashes \ {MAINNET_GENESIS_HASH})
                                \ blocks_dir(lowest, tips)
          /\ config = [canonical_threshold |-> ct,
                       canonical_update_threshold |-> cut,
                       prune_interval |-> PRUNE_INTERVAL_DEFAULT,
                       num_canonical |-> Len(canonical_paths),
                       length_sorted |-> length_sorted]
    /\ blocks_cf = genesis_store.blocks_cf
    /\ canonicity_cf = genesis_store.canonicity_cf
    /\ max_canonical = genesis_store.max_canonical
    /\ ledgers_cf = genesis_store.ledgers_cf
    /\ events_cf = genesis_store.events_cf
    /\ next_event_seq_num = genesis_store.next_event_seq_num
    /\ ret = NoRet
    /\ panicked = FALSE
    /\ store_calls = 0
    /\ original = NoOriginal
    /\ successive_blocks = << >>
    /\ blockchain = Blockchain_new(empty_db, NoAttempt)
    /\ log_run = NoLogRun

\* the indexer at its start, and no single function called
Init ==
    /\ InitIndexer
    /\ discovery_run = NoDiscovery
    /\ ledger = genesis_ledger
    /\ unparsed = 0
    /\ server = NoServer
    /\ ipc = IpcActor_new
    /\ file_check = NoFileCheck
    /\ ledger_walk = NoLedgerWalk
    /\ conn = NoConn

-----------------------------------------------------------------------------
(* The block pipeline.                                                     *)

\* one turn of the loop of initialize_with_canonical_chain_discovery
FastPathBlock ==
    /\ ~ panicked
    /\ phase = "InitializingFromBlockDir"
    /\ blocks_processed < config.num_canonical
    /\ canonical_paths # << >>
    /\ LET block == Head(canonical_paths)
           processed == blocks_processed + 1
           st1 == set_max_canonical_blockchain_length(
                     add_canonical_block(add_block(store, block),
                                         blockchain_length[block], block),
                     blockchain_length[block])
           applied == apply_post_balances(ledger, block)
           st2 == IF processed % LEDGER_CADENCE = 0
                  THEN add_ledger(st1, block, applied) ELSE st1
           last == processed = config.num_canonical
       IN /\ blocks_processed' = processed
          /\ ledger' = applied
          /\ canonical_paths' = Tail(canonical_paths)
          /\ set_store(st2)
          /\ root_branch' = IF last THEN Branch_new(block) ELSE root_branch
          /\ best_tip' = IF last THEN block ELSE best_tip
          /\ canonical_tip' = IF last THEN block ELSE canonical_tip
    /\ UNCHANGED << phase, diffs_map, dangling_branches, config,
                    successive_paths, later_paths, ret, panicked >>
    /\ UNCHANGED restart_vars
    /\ UNCHANGED << blockchain, log_run, pure_vars, watch_vars >>

\* the store writes of one turn of add_blocks with the new canonical blocks
\* journalled ahead of the ledgers
block_pipeline_canonical_first(st, b, new_ledgers, canonical_blocks) ==
    add_ledgers(add_canonical_blocks_to_store(add_block(st, b),
                                              canonical_blocks),
                new_ledgers)

\* the store writes of one turn of add_blocks: the block, the ledgers that
\* update_ledger_store adds inside add_block_to_witness_tree, then the new
\* canonical blocks
block_pipeline(st, b, new_ledgers, canonical_blocks) ==
    add_canonical_blocks_to_store(add_ledgers(add_block(st, b), new_ledgers),
                                  canonical_blocks)

\* what a call of add_block_to_witness_tree leaves in ret: the call's number,
\* its argument, its result and the tips the call started from
ret_of(b, r) ==
    [n |-> ret.n + 1, block |-> b,
     ext |-> IF r.panic THEN "Panic" ELSE r.ext,
     canonical_blocks |-> IF r.panic THEN << >> ELSE r.canonical_blocks,
     best_tip_before |-> best_tip, canonical_tip_before |-> canonical_tip]

\* one turn of the loop of add_blocks: store the block, offer it to the
\* witness tree, store the new canonical blocks; a parser built by discovery
\* yields its paths by length
add_blocks_turn(b) ==
    /\ ~ panicked
    /\ phase = "InitializingFromBlockDir"
    /\ canonical_paths = << >>
    /\ b \in successive_paths
    /\ config.length_sorted =>
            \A c \in successive_paths :
                blockchain_length[b] <= blockchain_length[c]
    /\ successive_paths' = successive_paths \ {b}
    /\ LET r == add_block_to_witness_tree(b)
       IN /\ ret' = ret_of(b, r)
          /\ panicked' = r.panic
          /\ IF r.panic
             THEN /\ set_store(block_pipeline(store, b, r.new_ledgers, << >>))
                  /\ UNCHANGED tree_vars
             ELSE /\ set_store(block_pipeline(store, b, r.new_ledgers,
                                              r.canonical_blocks))
                  /\ set_tree(r)
    /\ UNCHANGED << phase, config, canonical_paths, later_paths >>
    /\ UNCHANGED restart_vars
    /\ UNCHANGED << blockchain, pure_vars, fast_path_vars, watch_vars >>

AddBlock(b) ==
    /\ add_blocks_turn(b)
    /\ UNCHANGED log_run

\* a phase that add_blocks never sets
phase_replaying == "Replaying"

\* the phase that add_blocks sets at its end
phase_after_add_blocks == "Watching"

\* the end of add_blocks: the parser has no path left
AddBlocksDone ==
    /\ ~ panicked
    /\ phase = "InitializingFromBlockDir"
    /\ canonical_paths = << >>
    /\ successive_paths = {}
    /\ phase' = phase_after_add_blocks
    /\ UNCHANGED << tree_vars, store_vars, config, canonical_paths,
                    successive_paths, later_paths, ret, panicked >>
    /\ UNCHANGED restart_vars
    /\ UNCHANGED other_vars

\* block_persistence: a block file seen by the watcher is offered to the
\* witness tree
WatchBlock(b) ==
    /\ ~ panicked
    /\ phase = "Watching"
    /\ b \in later_paths
    /\ later_paths' = later_paths \ {b}
    /\ LET r == add_block_to_witness_tree(b)
       IN /\ ret' = ret_of(b, r)
          /\ panicked' = r.panic
          /\ set_store(add_ledgers(store, r.new_ledgers))
          /\ IF r.panic THEN UNCHANGED tree_vars ELSE set_tree(r)
    /\ UNCHANGED << phase, config, canonical_paths, successive_paths >>
    /\ UNCHANGED restart_vars
    /\ UNCHANGED other_vars

Next ==
    \/ FastPathBlock
    \/ \E b \in Hashes : AddBlock(b)
    \/ AddBlocksDone
    \/ \E b \in Hashes : WatchBlock(b)

Spec == Init /\ [][Next]_vars

-----------------------------------------------------------------------------
(* The store handed a block it already holds.                              *)

\* the number of such calls in a run
MaxStoreCalls == 1

\* a set_block_canonicity that deletes the stored block
set_block_canonicity_delete(st, state_hash) ==
    [st EXCEPT !.blocks_cf = @ \ {state_hash}]

\* BlockStore::set_block_canonicity: the stored block is written again with
\* its canonicity, through add_block
set_block_canonicity(st, state_hash) ==
    IF state_hash \in st.blocks_cf THEN add_block(st, state_hash) ELSE st

\* a call of set_block_canonicity
SetBlockCanonicity(state_hash) ==
    /\ ~ panicked
    /\ store_calls < MaxStoreCalls
    /\ store_calls' = store_calls + 1
    /\ set_store(set_block_canonicity(store, state_hash))
    /\ UNCHANGED << tree_vars, phase, config, canonical_paths,
                    successive_paths, later_paths, ret, panicked, original,
                    successive_blocks, other_vars >>

\* one turn of the loop of add_blocks for a block that the parser yields a
\* second time
AddBlockAgain(b) ==
    /\ ~ panicked
    /\ phase = "InitializingFromBlockDir"
    /\ canonical_paths = << >>
    /\ b \in blocks_cf \ {MAINNET_GENESIS_HASH}
    /\ store_calls < MaxStoreCalls
    /\ store_calls' = store_calls + 1
    /\ LET r == add_block_to_witness_tree(b)
       IN /\ ret' = ret_of(b, r)
          /\ panicked' = r.panic
          /\ IF r.panic
             THEN /\ set_store(block_pipeline(store, b, r.new_ledgers, << >>))
                  /\ UNCHANGED tree_vars
             ELSE /\ set_store(block_pipeline(store, b, r.new_ledgers,
                                              r.canonical_blocks))
                  /\ set_tree(r)
    /\ UNCHANGED << phase, config, canonical_paths, successive_paths,
                    later_paths, original, successive_blocks, other_vars >>

NextStore ==
    \/ Next
    \/ \E b \in Hashes : SetBlockCanonicity(b)
    \/ \E b \in Hashes : AddBlockAgain(b)

\* the start of the runs with such calls: a parser built by discovery and
\* the canonical update threshold of the default configuration
InitStore ==
    /\ Init
    /\ config.length_sorted
    /\ config.canonical_update_threshold = 1

SpecStore == InitStore /\ [][NextStore]_vars

-----------------------------------------------------------------------------
(* The watcher sees a block file that cannot be parsed.                    *)

\* malformed files that the watcher sees in a run
MaxMalformed == 1

\* parse_file: serde_json fails on a file that is not a block
parse_file(well_formed) == IF well_formed THEN "Ok" ELSE "Err"

\* Result::unwrap: TRUE when it panics
unwrap_panics(result) == result = "Err"

\* block_persistence with a file whose name is that of a block file
\* (is_valid_block_file looks at the name only) and whose contents do not
\* parse: the thread unwraps the result of parse_file
WatchMalformed ==
    /\ ~ panicked
    /\ phase = "Watching"
    /\ unparsed < MaxMalformed
    /\ unparsed' = unparsed + 1
    /\ panicked' = unwrap_panics(parse_file(FALSE))
    /\ UNCHANGED << tree_vars, store_vars, phase, config, canonical_paths,
                    successive_paths, later_paths, ret, restart_vars,
                    blockchain, log_run, pure_vars, fast_path_vars, server >>

NextWatch ==
    \/ Next
    \/ WatchMalformed

\* the start of the runs with malformed files: a parser built by discovery
\* and the canonical update threshold of the default configuration
InitWatch ==
    /\ Init
    /\ config.length_sorted
    /\ config.canonical_update_threshold = 1

SpecWatch == InitWatch /\ [][NextWatch]_vars

-----------------------------------------------------------------------------
(* The connection handlers of IpcActor and their read-only stores.         *)

\* client connections accepted in a run
MaxConns == 3

\* read-only secondary stores opened in a run
MaxSecondaries == 3

\* Uuid::new_v4: a name that no directory had before
fresh_path(a) == SetMax(a.dirs \cup {a.store}) + 1

\* tokio::fs::remove_dir_all(path): the secondary directory, or the primary
\* store itself
remove_dir_all(a, path) ==
    [a EXCEPT !.dirs = @ \ {path},
              !.primary = IF path = PRIMARY_PATH THEN FALSE ELSE @]

\* IpcActor::run, a state update: the store handle is replaced by one of a
\* new secondary (spawn_secondary_database)
IpcStateUpdate ==
    /\ fresh_path(ipc) <= MaxSecondaries
    /\ ipc' = [ipc EXCEPT !.store = fresh_path(ipc),
                          !.dirs = @ \cup {fresh_path(ipc)}]
    /\ UNCHANGED << phase, tree_vars, store_vars, config, canonical_paths,
                    successive_paths, later_paths, ret, panicked,
                    restart_vars, blockchain, log_run, discovery_run, conn,
                    fast_path_vars, watch_vars, file_vars >>

\* IpcActor::run, a client is accepted: a task is spawned with a clone of
\* the actor's store handle
IpcAccept ==
    /\ ipc.accepted < MaxConns
    /\ ipc' = [ipc EXCEPT !.accepted = @ + 1,
                          !.handlers = @ \cup {[n |-> ipc.accepted + 1,
                                                store |-> ipc.store]}]
    /\ UNCHANGED << phase, tree_vars, store_vars, config, canonical_paths,
                    successive_paths, later_paths, ret, panicked,
                    restart_vars, blockchain, log_run, discovery_run, conn,
                    fast_path_vars, watch_vars, file_vars >>

\* the end of a spawned task: handle_conn has returned and the task removes
\* the directory of its store handle
IpcHandlerDone(h) ==
    /\ h \in ipc.handlers
    /\ ipc' = [remove_dir_all(ipc, h.store) EXCEPT !.handlers = @ \ {h}]
    /\ UNCHANGED << phase, tree_vars, store_vars, config, canonical_paths,
                    successive_paths, later_paths, ret, panicked,
                    restart_vars, blockchain, log_run, discovery_run, conn,
                    fast_path_vars, watch_vars, file_vars >>

NextIpcActor ==
    \/ IpcStateUpdate
    \/ IpcAccept
    \/ \E h \in ipc.handlers : IpcHandlerDone(h)

\* the actor beside an indexer that waits
InitIpcActor ==
    /\ Init
    /\ ~ config.length_sorted
    /\ config.canonical_update_threshold = 1
    /\ config.canonical_threshold = MAINNET_CANONICAL_THRESHOLD

SpecIpcActor == InitIpcActor /\ [][NextIpcActor]_vars

-----------------------------------------------------------------------------
(* Signals and the shutdown command.                                       *)

\* the exit codes of wait_for_signal
SIGTERM_EXIT == 100
SIGINT_EXIT == 101

\* start_unix_domain_server: the server binds the domain socket; run spawns
\* it after initialize has returned
StartUnixDomainServer ==
    /\ phase = "Watching"
    /\ ~ server.started
    /\ server' = [server EXCEPT !.started = TRUE, !.socket = TRUE]
    /\ UNCHANGED << tree_vars, store_vars, phase, config, canonical_paths,
                    successive_paths, later_paths, ret, panicked,
                    restart_vars, blockchain, log_run, pure_vars,
                    fast_path_vars, unparsed >>

\* the process exits with a code; socket_removed tells whether the domain
\* socket was removed first
exit_process(srv, code, socket_removed) ==
    [srv EXCEPT !.exit_code = code,
                !.socket = IF socket_removed THEN FALSE ELSE @]

\* wait_for_signal: process::exit in the arm of the signal; run spawns the
\* task after initialize has returned
WaitForSignal(code) ==
    /\ phase = "Watching"
    /\ phase' = "Stopped"
    /\ server' = exit_process(server, code, FALSE)
    /\ UNCHANGED << tree_vars, store_vars, config, canonical_paths,
                    successive_paths, later_paths, ret, panicked,
                    restart_vars, blockchain, log_run, pure_vars,
                    fast_path_vars, unparsed >>

\* handle_conn, "shutdown": remove_domain_socket, then process::exit(0)
Shutdown ==
    /\ phase = "Watching"
    /\ server.socket
    /\ phase' = "Stopped"
    /\ server' = exit_process(server, 0, TRUE)
    /\ UNCHANGED << tree_vars, store_vars, config, canonical_paths,
                    successive_paths, later_paths, ret, panicked,
                    restart_vars, blockchain, log_run, pure_vars,
                    fast_path_vars, unparsed >>

NextSignal ==
    \/ Next
    \/ StartUnixDomainServer
    \/ \E code \in {SIGTERM_EXIT, SIGINT_EXIT} : WaitForSignal(code)
    \/ Shutdown

\* the start of the runs with signals: a parser built by discovery and the
\* canonical update threshold of the default configuration
InitSignal ==
    /\ Init
    /\ config.length_sorted
    /\ config.canonical_update_threshold = 1

SpecSignal == InitSignal /\ [][NextSignal]_vars

-----------------------------------------------------------------------------
(* Reads of a ledger that memoise it.                                      *)

\* LedgerDiff::append_vec: the diffs of the blocks, one after the other
append_vec(diffs) == diffs

\* Ledger::_apply_diff with a diff that append_vec made
apply_diff_vec(l, diff) == l \o diff

\* LedgerStore::add_ledger_state_hash: the ledger is put at the state hash;
\* the event is journalled when the block is stored and its ledger is new
add_ledger_state_hash(st, state_hash, l) ==
    LET put == [st EXCEPT !.ledgers_cf = (state_hash :> l) @@ @]
    IN IF state_hash \in st.blocks_cf
          /\ state_hash \notin DOMAIN st.ledgers_cf
       THEN add_event(put, NewLedger(state_hash))
       ELSE put

\* the walk of get_ledger_state_hash: back from curr_state_hash through the
\* stored diffs to a stored ledger
RECURSIVE get_ledger_state_hash_walk(_, _, _)
get_ledger_state_hash_walk(st, curr_state_hash, diffs) ==
    IF curr_state_hash \in DOMAIN st.ledgers_cf
    THEN [some |-> TRUE,
          ledger |-> apply_diff_vec(st.ledgers_cf[curr_state_hash],
                                    append_vec(Reverse(diffs)))]
    ELSE IF curr_state_hash \in st.blocks_cf
    THEN get_ledger_state_hash_walk(st, parent_hash[curr_state_hash],
                                    Append(diffs, curr_state_hash))
    ELSE NoLedger

\* LedgerStore::get_ledger_state_hash: the ledger, and the store after it
get_ledger_state_hash(st, state_hash, memoize) ==
    LET found == get_ledger_state_hash_walk(st, state_hash, << >>)
    IN [found |-> found,
        store |-> IF found.some /\ memoize
                  THEN add_ledger_state_hash(st, state_hash, found.ledger)
                  ELSE st]

\* a read of the ledger of a block that memoises it
GetLedgerStateHash(state_hash) ==
    /\ ~ panicked
    /\ store_calls < MaxStoreCalls
    /\ store_calls' = store_calls + 1
    /\ set_store(get_ledger_state_hash(store, state_hash, TRUE).store)
    /\ UNCHANGED << tree_vars, phase, config, canonical_paths,
                    successive_paths, later_paths, ret, panicked, original,
                    successive_blocks, other_vars >>

NextLedger ==
    \/ Next
    \/ \E b \in Hashes : GetLedgerStateHash(b)

\* the start of the runs with such reads: the thresholds of the default
\* configuration
InitLedger ==
    /\ Init
    /\ config.canonical_update_threshold = 1
    /\ config.canonical_threshold = MAINNET_CANONICAL_THRESHOLD

SpecLedger == InitLedger /\ [][NextLedger]_vars

-----------------------------------------------------------------------------
(* A process that stops, and the process that syncs from its store.        *)

\* the calls that one turn of add_blocks makes to the store, in their order
turn_calls(b, new_ledgers, canonical_blocks) ==
    << [op |-> "add_block", state_hash |-> b] >>
    \o [i \in 1..Len(new_ledgers) |->
            [op |-> "add_ledger", state_hash |-> new_ledgers[i].state_hash,
             ledger |-> new_ledgers[i].ledger]]
    \o [i \in 1..Len(canonical_blocks) |->
            [op |-> "add_canonical_block", state_hash |-> canonical_blocks[i]]]

\* the event that a call journals
event_of(call) ==
    IF call.op = "add_block" THEN NewBlock(call.state_hash)
    ELSE IF call.op = "add_ledger" THEN NewLedger(call.state_hash)
    ELSE NewCanonicalBlock(blockchain_length[call.state_hash],
                           call.state_hash)

\* the first put_cf of a call: the block, the ledger or the canonicity entry
put_data(st, call) ==
    IF call.op = "add_block"
    THEN [st EXCEPT !.blocks_cf = @ \cup {call.state_hash}]
    ELSE IF call.op = "add_ledger"
    THEN [st EXCEPT !.ledgers_cf = (call.state_hash :> call.ledger) @@ @]
    ELSE [st EXCEPT !.canonicity_cf[blockchain_length[call.state_hash]] =
                        call.state_hash]

\* a call cut after puts of its three put_cf: the data, the event at
\* next_event_seq_num, the pointer
store_call(st, call, puts) ==
    IF puts = 0 THEN st
    ELSE IF puts = 1 THEN put_data(st, call)
    ELSE IF puts = 2
    THEN add_event_same_seq_num(put_data(st, call), event_of(call))
    ELSE add_event(put_data(st, call), event_of(call))

RECURSIVE store_calls_done(_, _)
store_calls_done(st, calls) ==
    IF calls = << >> THEN st
    ELSE store_calls_done(store_call(st, Head(calls), 3), Tail(calls))

\* the tips and the diffs of a tree, and the phase of its process
tips_of(r) ==
    [best_tip |-> r.best_tip, canonical_tip |-> r.canonical_tip,
     diffs_map |-> r.diffs_map, phase |-> phase]

\* the process is stopped between two turns of its loop
Stop ==
    /\ ~ panicked
    /\ phase \in {"InitializingFromBlockDir", "Watching"}
    /\ canonical_paths = << >>
    /\ phase' = "Stopped"
    /\ original' = tips_of([best_tip |-> best_tip,
                            canonical_tip |-> canonical_tip,
                            diffs_map |-> diffs_map])
    /\ UNCHANGED << tree_vars, store_vars, config, canonical_paths,
                    successive_paths, later_paths, ret, panicked,
                    store_calls, successive_blocks, other_vars >>

\* what a kill inside the turn of add_blocks for block b leaves: done of the
\* turn's store calls are complete and the next one made puts of its three
\* writes; r is the tree that the turn was about to reach, and it is the
\* state to restore once NewBlock(b) is in the journal
crashed_turn(r, calls, done, puts) ==
    /\ ~ r.panic
    /\ done < Len(calls)
    /\ set_store(store_call(store_calls_done(store, SubSeq(calls, 1, done)),
                            calls[done + 1], puts))
    /\ original' = IF done = 0 THEN tips_of([best_tip |-> best_tip,
                                             canonical_tip |-> canonical_tip,
                                             diffs_map |-> diffs_map])
                   ELSE tips_of(r)

\* the calls to the store of the turn of add_blocks that reaches tree r
turn_calls_of(b, r) == turn_calls(b, r.new_ledgers, r.canonical_blocks)

\* the process is killed inside a turn of add_blocks
CrashInAddBlocks(b, done, puts) ==
    /\ ~ panicked
    /\ phase = "InitializingFromBlockDir"
    /\ canonical_paths = << >>
    /\ b \in successive_paths
    /\ config.length_sorted =>
            \A c \in successive_paths :
                blockchain_length[b] <= blockchain_length[c]
    /\ crashed_turn(add_block_to_witness_tree(b),
                    turn_calls_of(b, add_block_to_witness_tree(b)),
                    done, puts)
    /\ phase' = "Stopped"
    /\ UNCHANGED << tree_vars, config, canonical_paths, successive_paths,
                    later_paths, ret, panicked, store_calls,
                    successive_blocks, other_vars >>

\* the sequence numbers of the journal's NewCanonicalBlock events
canonical_block_events ==
    {n \in DOMAIN events_cf :
        n < next_event_seq_num /\ events_cf[n].kind = "NewCanonicalBlock"}

\* the state hashes of the NewBlock events above length len, in journal
\* order
RECURSIVE new_blocks_above(_, _)
new_blocks_above(log, len) ==
    IF log = << >> THEN << >>
    ELSE IF Head(log).kind = "NewBlock" /\ Head(log).blockchain_length > len
    THEN << Head(log).state_hash >> \o new_blocks_above(Tail(log), len)
    ELSE new_blocks_above(Tail(log), len)

\* new_without_genesis_events, then sync_from_db up to its last loop: the
\* tree is rooted at the block of the last NewCanonicalBlock event, whose
\* length has to be the stored maximum, and the NewBlock events above it are
\* collected; a NewBlock event whose block is missing is fatal
SyncStart ==
    /\ phase = "Stopped"
    /\ phase' = "SyncingFromDB"
    /\ diffs_map' = {}
    /\ dangling_branches' = << >>
    /\ blocks_processed' = 0
    /\ IF canonical_block_events = {}
       THEN /\ root_branch' = Branch_new(MAINNET_GENESIS_HASH)
            /\ best_tip' = MAINNET_GENESIS_HASH
            /\ canonical_tip' = MAINNET_GENESIS_HASH
            /\ successive_blocks' =
                    SelectSeq(new_blocks_above(get_event_log, 0),
                              LAMBDA h : h \in blocks_cf)
            /\ panicked' = FALSE
       ELSE LET last == events_cf[SetMax(canonical_block_events)]
                blocks == new_blocks_above(get_event_log,
                                           last.blockchain_length)
                fatal == \/ last.blockchain_length # max_canonical
                         \/ last.state_hash \notin blocks_cf
                         \/ \E i \in DOMAIN blocks : blocks[i] \notin blocks_cf
            IN /\ panicked' = fatal
               /\ root_branch' = IF fatal THEN root_branch
                                 ELSE Branch_new(last.state_hash)
               /\ best_tip' = IF fatal THEN best_tip ELSE last.state_hash
               /\ canonical_tip' = IF fatal THEN canonical_tip
                                   ELSE last.state_hash
               /\ successive_blocks' = IF fatal THEN << >> ELSE blocks
    /\ UNCHANGED << store_vars, config, canonical_paths, successive_paths,
                    later_paths, ret, store_calls, original, other_vars >>

\* the tree and the store after add_block_to_witness_tree(b) returned r
\* inside sync_from_db
synced_block(b, r) ==
    /\ ret' = ret_of(b, r)
    /\ panicked' = r.panic
    /\ set_store(add_ledgers(store, r.new_ledgers))
    /\ IF r.panic THEN UNCHANGED tree_vars ELSE set_tree(r)

\* one turn of the last loop of sync_from_db
SyncBlock ==
    /\ ~ panicked
    /\ phase = "SyncingFromDB"
    /\ successive_blocks # << >>
    /\ successive_blocks' = Tail(successive_blocks)
    /\ synced_block(Head(successive_blocks),
                    add_block_to_witness_tree(Head(successive_blocks)))
    /\ UNCHANGED << phase, config, canonical_paths, successive_paths,
                    later_paths, store_calls, original, other_vars >>

NextRestart ==
    \/ Next
    \/ Stop
    \/ \E b \in Hashes, done \in 0..MaxLength, puts \in 0..2 :
            CrashInAddBlocks(b, done, puts)
    \/ SyncStart
    \/ SyncBlock

\* the start of the runs that stop and sync: a parser built by discovery
InitRestart ==
    /\ Init
    /\ config.length_sorted

SpecRestart == InitRestart /\ [][NextRestart]_vars

-----------------------------------------------------------------------------
(* The block-ingestion binary: Blockchain and block_persistence.           *)

\* the greatest value that journal_seq takes in a run
MaxJournalSeq == 4

\* Blockchain::add_block: the sequence number is taken with fetch_add, then
\* the block, the journal entry and journal_seq_key are written in one
\* WriteBatch; ok tells whether the write succeeds.  last keeps the call's
\* result, the counters that the call found, and the sequence number of the
\* call before it when that one failed
Blockchain_add_block(bc, block, ok) ==
    LET seq_num == bc.journal_seq
        db == IF ok
              THEN [blocks |-> bc.db.blocks \cup {block},
                    journal |-> (seq_num :> block) @@ bc.db.journal,
                    journal_seq_key |-> seq_num]
              ELSE bc.db
    IN [bc EXCEPT !.journal_seq = seq_num + 1,
                  !.db = db,
                  !.last = [result |-> IF ok THEN "Ok" ELSE "Err",
                            seq_num |-> seq_num,
                            journal_seq_before |-> bc.journal_seq,
                            journal_seq_key_before |-> bc.db.journal_seq_key,
                            failed_seq_num |->
                                IF bc.last.result = "Err"
                                THEN bc.last.seq_num ELSE NoKey]]

\* one turn of the loop of block_persistence: the next block of the sorted
\* directory is added; a failed add ends the process with exit(666)
BlockPersistence(ok) ==
    /\ ~ blockchain.exited
    /\ blockchain.received < Cardinality(Hashes)
    /\ blockchain.journal_seq < MaxJournalSeq
    /\ blockchain' =
            [Blockchain_add_block(blockchain, blockchain.received + 1, ok)
                EXCEPT !.received = @ + 1, !.exited = ~ ok]
    /\ UNCHANGED << phase, tree_vars, store_vars, config, canonical_paths,
                    successive_paths, later_paths, ret, panicked,
                    restart_vars, log_run, pure_vars, fast_path_vars, watch_vars >>

\* the binary is started again on the database it left
BlockIngestionRestart ==
    /\ blockchain.exited
    /\ blockchain' = Blockchain_new(blockchain.db, blockchain.last)
    /\ UNCHANGED << phase, tree_vars, store_vars, config, canonical_paths,
                    successive_paths, later_paths, ret, panicked,
                    restart_vars, log_run, pure_vars, fast_path_vars, watch_vars >>

NextIngestion ==
    \/ \E ok \in BOOLEAN : BlockPersistence(ok)
    \/ BlockIngestionRestart

\* the runs of the block-ingestion binary, beside an indexer that makes no
\* step
InitIngestion ==
    /\ Init
    /\ ~ config.length_sorted
    /\ config.canonical_update_threshold = 1
    /\ config.canonical_threshold = MAINNET_CANONICAL_THRESHOLD

SpecIngestion == InitIngestion /\ [][NextIngestion]_vars

-----------------------------------------------------------------------------
(* The event log test: add_blocks against the pipeline made step by step.  *)

\* one turn of add_blocks in the first run; the test keeps the order in
\* which the parser yields the blocks
LogAddBlock(b) ==
    /\ log_run.run = 0
    /\ add_blocks_turn(b)
    /\ log_run' = [log_run EXCEPT !.fed = Append(@, b)]

\* add_blocks of the first run is over: its event log is read, and the
\* second run starts with IndexerState::new on a fresh store and a parser
\* that yields the same blocks in the same order
LogSecondRun ==
    /\ log_run.run = 0
    /\ ~ panicked
    /\ phase = "InitializingFromBlockDir"
    /\ canonical_paths = << >>
    /\ successive_paths = {}
    /\ log_run' = [run |-> 1, fed |-> log_run.fed,
                   event_log0 |-> get_event_log, todo |-> log_run.fed,
                   step |-> "add_block", canonical_blocks |-> << >>]
    /\ root_branch' = Branch_new(MAINNET_GENESIS_HASH)
    /\ best_tip' = MAINNET_GENESIS_HASH
    /\ canonical_tip' = MAINNET_GENESIS_HASH
    /\ diffs_map' = {MAINNET_GENESIS_HASH}
    /\ dangling_branches' = << >>
    /\ blocks_processed' = 0
    /\ set_store(genesis_store)
    /\ ret' = NoRet
    /\ UNCHANGED << phase, config, canonical_paths, successive_paths,
                    later_paths, panicked, restart_vars, blockchain,
                    pure_vars, fast_path_vars, watch_vars >>

\* second run, first step: the store's add_block
ManualAddBlock ==
    /\ log_run.run = 1
    /\ ~ panicked
    /\ log_run.step = "add_block"
    /\ log_run.todo # << >>
    /\ set_store(store_call(store, [op |-> "add_block",
                                    state_hash |-> Head(log_run.todo)], 3))
    /\ log_run' = [log_run EXCEPT !.step = "witness_tree"]
    /\ UNCHANGED << phase, tree_vars, config, canonical_paths,
                    successive_paths, later_paths, ret, panicked,
                    restart_vars, blockchain,
                    pure_vars, fast_path_vars, watch_vars >>

\* the tree and the store after add_block_to_witness_tree(b) returned r in
\* the second run; the new canonical blocks are kept for the next step
offered_block(b, r) ==
    /\ ret' = ret_of(b, r)
    /\ panicked' = r.panic
    /\ set_store(store_calls_done(store,
            [i \in 1..Len(r.new_ledgers) |->
                [op |-> "add_ledger",
                 state_hash |-> r.new_ledgers[i].state_hash,
                 ledger |-> r.new_ledgers[i].ledger]]))
    /\ IF r.panic THEN UNCHANGED tree_vars ELSE set_tree(r)
    /\ log_run' = [log_run EXCEPT !.step = "canonical",
                                  !.canonical_blocks =
                                      IF r.panic THEN << >>
                                      ELSE r.canonical_blocks]

\* second run, second step: add_block_to_witness_tree
ManualWitnessTree ==
    /\ log_run.run = 1
    /\ ~ panicked
    /\ log_run.step = "witness_tree"
    /\ offered_block(Head(log_run.todo),
                     add_block_to_witness_tree(Head(log_run.todo)))
    /\ UNCHANGED << phase, config, canonical_paths, successive_paths,
                    later_paths, restart_vars, blockchain,
                    pure_vars, fast_path_vars, watch_vars >>

\* second run, third step: add_canonical_block for each new canonical block
ManualCanonical ==
    /\ log_run.run = 1
    /\ ~ panicked
    /\ log_run.step = "canonical"
    /\ set_store(store_calls_done(store,
            [i \in 1..Len(log_run.canonical_blocks) |->
                [op |-> "add_canonical_block",
                 state_hash |-> log_run.canonical_blocks[i]]]))
    /\ log_run' = [log_run EXCEPT !.step = "add_block",
                                  !.todo = Tail(@),
                                  !.canonical_blocks = << >>]
    /\ UNCHANGED << phase, tree_vars, config, canonical_paths,
                    successive_paths, later_paths, ret, panicked,
                    restart_vars, blockchain,
                    pure_vars, fast_path_vars, watch_vars >>

NextLog ==
    \/ \E b \in Hashes : LogAddBlock(b)
    \/ LogSecondRun
    \/ ManualAddBlock
    \/ ManualWitnessTree
    \/ ManualCanonical

\* the start of the test: a state at genesis whose parser hands every block
\* to add_blocks
InitLog ==
    /\ Init
    /\ config.num_canonical = 0

SpecLog == InitLog /\ [][NextLog]_vars

-----------------------------------------------------------------------------
(* Canonical chain discovery over a list of block paths.  A path is the    *)
(* state hash of its block; the code's indices start at 0.                 *)

\* paths[i] with the code's index
at(paths, i) == paths[i + 1]

\* paths[a..b] with the code's indices
slice(paths, a, b) == SubSeq(paths, a + 1, b)

\* an Option without a value, and one with a pair
None == [some |-> FALSE, fst |-> 0, snd |-> 0]
Some(a, b) == [some |-> TRUE, fst |-> a, snd |-> b]

\* a filter that is not set
NoFilter == -1

\* sort_by_cached_key(extract_block_height_or_max): a stable sort by length,
\* here of the paths whose length is len or more
RECURSIVE sort_by_length(_, _)
sort_by_length(paths, len) ==
    IF len > MaxLength THEN << >>
    ELSE SelectSeq(paths, LAMBDA p : blockchain_length[p] = len)
            \o sort_by_length(paths, len + 1)

\* the two retain calls of the length filters
retain(paths, min_len_filter, max_len_filter) ==
    SelectSeq(paths, LAMBDA p :
        /\ max_len_filter # NoFilter => blockchain_length[p] <= max_len_filter
        /\ min_len_filter # NoFilter => blockchain_length[p] >= min_len_filter)

\* length_start_indices_and_diffs: for every length of the sorted paths the
\* index of its first path and the difference to the length before
length_start_indices_and_diffs(paths) ==
    LET starts == {i \in 0..(Len(paths) - 1) :
                      \/ i = 0
                      \/ blockchain_length[at(paths, i)] >
                            blockchain_length[at(paths, i - 1)]}
        idxs == ascending(starts)
    IN [n \in 1..Len(idxs) |->
            << idxs[n],
               IF idxs[n] = 0 THEN 0
               ELSE blockchain_length[at(paths, idxs[n])]
                        - blockchain_length[at(paths, idxs[n] - 1)] >>]

\* last_contiguous_first_noncontiguous_start_idx: at the first difference
\* above 1, the start index before it and its own start index
last_contiguous_first_noncontiguous_start_idx(lsd) ==
    LET gaps == {n \in DOMAIN lsd : lsd[n][2] > 1}
    IN IF gaps = {} THEN None
       ELSE LET n == CHOOSE m \in gaps : \A g \in gaps : m <= g
            IN Some(IF n = 1 THEN 0 ELSE lsd[n - 1][1], lsd[n][1])

\* iter().position(|x| x.0 == start_idx).unwrap_or(0)
position(lsd, start_idx) ==
    LET found == {n \in DOMAIN lsd : lsd[n][1] = start_idx}
    IN IF found = {} THEN 0
       ELSE (CHOOSE m \in found : \A g \in found : m <= g) - 1

\* max_num_canonical_blocks
max_num_canonical_blocks(lsd, last_contiguous_start_idx) ==
    position(lsd, last_contiguous_start_idx) + 1

\* is_parent(path, curr_path): path is the parent of curr_path
is_parent(path, curr_path) == parent_hash[curr_path] = path

\* the inner loop of find_witness_tree_root over paths[prev..end], from the
\* idx-th path of the slice on; a match does not end the loop
RECURSIVE root_scan(_, _, _, _, _)
root_scan(paths, prev, end, idx, s) ==
    IF prev + idx >= end THEN s
    ELSE root_scan(paths, prev, end, idx + 1,
            IF is_parent(at(paths, prev + idx), s.curr_path)
            THEN [offset |-> idx,
                  curr_path |-> at(paths, prev + idx),
                  curr_length_idx |-> prev,
                  curr_start_idx |-> saturating_sub(s.curr_start_idx, 1),
                  parent_found |-> TRUE]
            ELSE s)

\* a root search that takes the highest path of the run as the root
find_witness_tree_root_top(paths, lsd, curr_start_idx, curr_length_idx, canonical_threshold) ==
    Some(curr_length_idx, curr_start_idx)

\* find_witness_tree_root, and root_steps: its loop from turn n on
RECURSIVE find_witness_tree_root(_, _, _, _, _)
RECURSIVE root_steps(_, _, _, _, _)
root_steps(paths, lsd, s, n, canonical_threshold) ==
    IF n > canonical_threshold
    THEN Some(s.curr_length_idx + s.offset, s.curr_start_idx)
    ELSE LET prev_length_start_idx ==
                IF s.curr_start_idx > 0 THEN lsd[s.curr_start_idx][1] ELSE 0
             t == root_scan(paths, prev_length_start_idx, s.curr_length_idx,
                            0, [s EXCEPT !.parent_found = FALSE])
         IN IF ~ t.parent_found
            THEN IF t.curr_start_idx > canonical_threshold
                 THEN find_witness_tree_root(paths, lsd,
                            saturating_sub(t.curr_start_idx, 1),
                            prev_length_start_idx, canonical_threshold)
                 ELSE None
            ELSE root_steps(paths, lsd, t, n + 1, canonical_threshold)

find_witness_tree_root(paths, lsd, curr_start_idx, curr_length_idx, canonical_threshold) ==
    IF Len(lsd) <= canonical_threshold THEN None
    ELSE root_steps(paths, lsd,
                    [offset |-> 0, curr_path |-> at(paths, curr_length_idx),
                     curr_length_idx |-> curr_length_idx,
                     curr_start_idx |-> curr_start_idx,
                     parent_found |-> FALSE],
                    1, canonical_threshold)

\* next_length_start_index
next_length_start_index(paths, path_idx) ==
    LET higher == {n \in path_idx..(Len(paths) - 1) :
                      blockchain_length[at(paths, n)] >
                          blockchain_length[at(paths, path_idx)]}
    IN IF higher = {} THEN None
       ELSE Some(CHOOSE m \in higher : \A g \in higher : m <= g, 0)

\* a search for the parent that finds none
parent_index_none(paths, a, b, curr_path) == -1

\* the index of the first path of paths[a..b] that is the parent of
\* curr_path, -1 without one
parent_index(paths, a, b, curr_path) ==
    LET found == {i \in a..(b - 1) : at(paths, i) = parent_hash[curr_path]}
    IN IF found = {} THEN -1
       ELSE CHOOSE m \in found : \A g \in found : m <= g

\* a descent that stops at the root and reports no missing parent
descend_stop(paths, lsd, curr_path, curr_length_idx, curr_start_idx, deep) ==
    [parent_found |-> TRUE, deep |-> deep, curr_path |-> curr_path,
     curr_length_idx |-> curr_length_idx]

\* the descent of discovery from the witness tree root, segment by segment
RECURSIVE descend(_, _, _, _, _, _)
descend(paths, lsd, curr_path, curr_length_idx, curr_start_idx, deep) ==
    IF curr_start_idx = 0
    THEN [parent_found |-> TRUE, deep |-> deep, curr_path |-> curr_path,
          curr_length_idx |-> curr_length_idx]
    ELSE LET prev_length_idx == lsd[curr_start_idx][1]
             i == parent_index(paths, prev_length_idx, curr_length_idx,
                               curr_path)
         IN IF i = -1
            THEN [parent_found |-> FALSE, deep |-> deep,
                  curr_path |-> curr_path,
                  curr_length_idx |-> curr_length_idx]
            ELSE descend(paths, lsd, at(paths, i), prev_length_idx,
                         curr_start_idx - 1, Append(deep, at(paths, i)))

\* what discovery returns
discovered(deep_canonical, recent, orphaned) ==
    [deep_canonical |-> deep_canonical, recent |-> recent,
     orphaned |-> orphaned]

\* the start index of the highest length of the lowest contiguous run
last_contiguous_start_idx(lsd) ==
    LET first_gap == last_contiguous_first_noncontiguous_start_idx(lsd)
    IN IF first_gap.some THEN first_gap.fst ELSE lsd[Len(lsd)][1]

\* the index of the last path of the lowest contiguous run
last_contiguous_idx(paths, lsd) ==
    LET first_gap == last_contiguous_first_noncontiguous_start_idx(lsd)
    IN IF first_gap.some THEN saturating_sub(first_gap.snd, 1)
       ELSE Len(paths) - 1

\* witness_tree_root_opt of discovery, None as well when the run has fewer
\* lengths than the threshold
witness_tree_root(paths, canonical_threshold) ==
    LET lsd == length_start_indices_and_diffs(paths)
        opt == find_witness_tree_root(paths, lsd,
                    position(lsd, last_contiguous_start_idx(lsd)),
                    last_contiguous_idx(paths, lsd), canonical_threshold)
    IN IF max_num_canonical_blocks(lsd, last_contiguous_start_idx(lsd))
                < canonical_threshold
       THEN None ELSE opt

\* discovery from the sorted and filtered paths on
discovery_sorted(paths, canonical_threshold) ==
    LET lsd == length_start_indices_and_diffs(paths)
        witness_tree_root_opt == witness_tree_root(paths, canonical_threshold)
    IN IF ~ witness_tree_root_opt.some
       THEN discovered(<< >>, paths, << >>)
       ELSE
       LET root_idx == witness_tree_root_opt.fst
           root == at(paths, root_idx)
           recent_start == next_length_start_index(paths, root_idx)
           recent == IF recent_start.some /\ recent_start.fst < lsd[Len(lsd)][1]
                     THEN slice(paths, recent_start.fst, Len(paths))
                     ELSE << >>
           walk == descend(paths, lsd, root, root_idx,
                           witness_tree_root_opt.snd, << root >>)
           lowest == parent_index(paths, 0, walk.curr_length_idx,
                                  walk.curr_path)
           deep == IF lowest = -1 THEN walk.deep
                   ELSE Append(walk.deep, at(paths, lowest))
       IN IF ~ walk.parent_found
          THEN discovered(<< >>, paths, << >>)
          ELSE discovered(Reverse(deep), recent,
                    SelectSeq(paths, LAMBDA p :
                        /\ blockchain_length[p] <= blockchain_length[root]
                        /\ p \notin Range(deep)))

\* the paths that discovery works on: sorted, then filtered
filtered(paths, min_len_filter, max_len_filter) ==
    retain(sort_by_length(paths, 1), min_len_filter, max_len_filter)

\* discovery
canonical_chain_discovery(min_len_filter, max_len_filter, canonical_threshold, paths) ==
    IF filtered(paths, min_len_filter, max_len_filter) = << >>
    THEN discovered(<< >>, << >>, << >>)
    ELSE discovery_sorted(filtered(paths, min_len_filter, max_len_filter),
                          canonical_threshold)

\* the greatest canonical threshold of a call
MaxThreshold == 3

\* the directories handed to discovery: a set of block files in glob order
\* or in the reverse of it
RECURSIVE descending(_)
descending(S) ==
    IF S = {} THEN << >>
    ELSE << SetMax(S) >> \o descending(S \ {SetMax(S)})

PathLists ==
    UNION {{ascending(S), descending(S)} :
                S \in SUBSET ((Hashes \cup ForeignHashes)
                                    \ {MAINNET_GENESIS_HASH})}

\* the length filters of a call
LenFilters == {NoFilter, 3}

\* a call of discovery
Discover ==
    /\ ~ discovery_run.called
    /\ discovery_run' =
            canonical_chain_discovery(discovery_run.min_len_filter,
                                      discovery_run.max_len_filter,
                                      discovery_run.canonical_threshold,
                                      discovery_run.paths)
            @@ [discovery_run EXCEPT !.called = TRUE]
    /\ UNCHANGED << phase, tree_vars, store_vars, config, canonical_paths,
                    successive_paths, later_paths, ret, panicked,
                    restart_vars, blockchain, log_run, fast_path_vars,
                    watch_vars, conn, ipc, file_vars >>

NextDiscovery == Discover

\* the calls of discovery: any directory, threshold and filters, beside an
\* indexer that makes no step
InitDiscovery ==
    /\ InitIndexer
    /\ ~ config.length_sorted
    /\ config.canonical_update_threshold = 1
    /\ config.canonical_threshold = MAINNET_CANONICAL_THRESHOLD
    /\ later_paths = {}
    /\ ledger = genesis_ledger
    /\ unparsed = 0
    /\ server = NoServer
    /\ ipc = IpcActor_new
    /\ file_check = NoFileCheck
    /\ ledger_walk = NoLedgerWalk
    /\ conn = NoConn
    /\ \E paths \in PathLists, k \in 0..MaxThreshold,
          min_len \in LenFilters, max_len \in LenFilters :
            discovery_run = [NoDiscovery EXCEPT
                                !.paths = paths,
                                !.canonical_threshold = k,
                                !.min_len_filter = min_len,
                                !.max_len_filter = max_len]

SpecDiscovery == InitDiscovery /\ [][NextDiscovery]_vars

-----------------------------------------------------------------------------
(* The server answers a client.                                            *)

\* an answer and the store functions that were called for it, in order
answer(response, store_reads) ==
    [response |-> response, store_reads |-> store_reads]

\* handle_conn, "account"
handle_account(req) ==
    IF req.best_ledger
    THEN IF ~ req.pk_valid
         THEN answer("Invalid public key", << "get_ledger_state_hash" >>)
         ELSE answer("account", << "get_ledger_state_hash" >>)
    ELSE answer("Best ledger not in database", << "get_ledger_state_hash" >>)

\* handle_conn, "block-state-hash"
handle_block_state_hash(req) ==
    IF ~ req.state_hash_valid
    THEN answer("Invalid state hash", << >>)
    ELSE answer("block", << "get_block" >>)

\* handle_conn, "snark-pk"
handle_snark_pk(req) ==
    IF ~ req.pk_valid
    THEN answer("Invalid public key", << >>)
    ELSE answer("snarks", << "get_snark_work_by_public_key" >>)

\* handle_conn, "snark-state-hash"
handle_snark_state_hash(req) ==
    IF ~ req.state_hash_valid
    THEN answer("Invalid state hash", << >>)
    ELSE answer("snarks", << "get_snark_work_in_block" >>)

\* handle_conn, "tx-pk"
handle_tx_pk(req) ==
    IF ~ req.pk_valid THEN answer("Invalid public key", << >>)
    ELSE IF ~ req.state_hash_valid THEN answer("Invalid state hash", << >>)
    ELSE IF ~ req.end_state_hash_valid
    THEN answer("Invalid state hash", << >>)
    ELSE answer("transactions", << "get_commands_for_public_key" >>)

\* handle_conn, "tx-hash"
handle_tx_hash(req) ==
    IF ~ req.tx_hash_valid
    THEN answer("Invalid transaction hash", << >>)
    ELSE answer("transaction", << "get_command_by_hash" >>)

\* handle_conn, "tx-state-hash"
handle_tx_state_hash(req) ==
    IF ~ req.state_hash_valid
    THEN answer("Invalid state hash", << >>)
    ELSE answer("transactions", << "get_commands_in_block" >>)

\* handle_conn, "ledger-at-height"
handle_ledger_at_height(req) ==
    IF req.height > req.best_tip_length
    THEN answer("Invalid query", << >>)
    ELSE answer("ledger", << "get_max_canonical_blockchain_length" >>)

\* handle_conn: the match on the command
handle_conn(req) ==
    IF req.command = "account" THEN handle_account(req)
    ELSE IF req.command = "block-state-hash" THEN handle_block_state_hash(req)
    ELSE IF req.command = "snark-pk" THEN handle_snark_pk(req)
    ELSE IF req.command = "snark-state-hash"
    THEN handle_snark_state_hash(req)
    ELSE IF req.command = "tx-pk" THEN handle_tx_pk(req)
    ELSE IF req.command = "tx-hash" THEN handle_tx_hash(req)
    ELSE IF req.command = "tx-state-hash" THEN handle_tx_state_hash(req)
    ELSE handle_ledger_at_height(req)

\* the commands that carry a public key, a state hash, a transaction hash
\* or a height
Commands ==
    {"account", "block-state-hash", "snark-pk", "snark-state-hash", "tx-pk",
     "tx-hash", "tx-state-hash", "ledger-at-height"}

\* the server handles the connection
HandleConn ==
    /\ ~ conn.handled
    /\ conn' = handle_conn(conn) @@ [conn EXCEPT !.handled = TRUE]
    /\ UNCHANGED << phase, tree_vars, store_vars, config, canonical_paths,
                    successive_paths, later_paths, ret, panicked,
                    restart_vars, blockchain, log_run, discovery_run,
                    fast_path_vars, watch_vars, ipc, file_vars >>

NextIpc == HandleConn

\* the connections: any command with any arguments, at any best tip, with
\* the ledger of the best tip in the store or not, beside an indexer that
\* waits
InitIpc ==
    /\ InitIndexer
    /\ ~ config.length_sorted
    /\ config.canonical_update_threshold = 1
    /\ config.canonical_threshold = MAINNET_CANONICAL_THRESHOLD
    /\ later_paths = {}
    /\ discovery_run = NoDiscovery
    /\ ledger = genesis_ledger
    /\ unparsed = 0
    /\ server = NoServer
    /\ ipc = IpcActor_new
    /\ file_check = NoFileCheck
    /\ ledger_walk = NoLedgerWalk
    /\ \E command \in Commands, pk_valid \in BOOLEAN,
          state_hash_valid \in BOOLEAN, end_state_hash_valid \in BOOLEAN,
          tx_hash_valid \in BOOLEAN, query_height \in 0..(MaxLength + 1),
          best_tip_length \in Heights, best_ledger \in BOOLEAN :
            conn = [NoConn EXCEPT
                        !.command = command,
                        !.pk_valid = pk_valid,
                        !.state_hash_valid = state_hash_valid,
                        !.end_state_hash_valid = end_state_hash_valid,
                        !.tx_hash_valid = tx_hash_valid,
                        !.height = query_height,
                        !.best_tip_length = best_tip_length,
                        !.best_ledger = best_ledger]

SpecIpc == InitIpc /\ [][NextIpc]_vars

-----------------------------------------------------------------------------
(* The names of block files.  A name is a sequence of tokens: a letter, two *)
(* digits, the dash, the prefix 3N and the extension .json.  The widths of  *)
(* the integers are scaled down.                                            *)

\* bits of a u32 and of a u64
U32_BITS == 3
U64_BITS == 6

\* tokens of a name
MaxNameLen == 6

Digits == {"1", "9"}
Tokens == {"m", "-", "3N", ".json"} \cup Digits

\* no length in the name
NoLength == -1

\* str::split('-')
RECURSIVE split(_, _)
split(name, part) ==
    IF name = << >> THEN << part >>
    ELSE IF Head(name) = "-" THEN << part >> \o split(Tail(name), << >>)
    ELSE split(Tail(name), Append(part, Head(name)))

\* str::starts_with("3N")
starts_with_3N(part) == part # << >> /\ Head(part) = "3N"

\* str::ends_with(".json")
ends_with_json(part) == part # << >> /\ part[Len(part)] = ".json"

\* the number that a string of decimal digits writes
RECURSIVE decimal(_)
decimal(part) ==
    IF part = << >> THEN 0
    ELSE 10 * decimal(SubSeq(part, 1, Len(part) - 1))
            + (IF part[Len(part)] = "1" THEN 1 ELSE 9)

\* str::parse::<uN>() for an integer of the given number of bits
parse(part, bits) ==
    IF /\ part # << >>
       /\ \A i \in DOMAIN part : part[i] \in Digits
       /\ decimal(part) < 2 ^ bits
    THEN [ok |-> TRUE, value |-> decimal(part)]
    ELSE [ok |-> FALSE, value |-> 0]

\* is_valid_block_file
is_valid_block_file(name) ==
    LET parts == split(name, << >>)
    IN IF Len(parts) = 2
       THEN ends_with_json(parts[2]) /\ starts_with_3N(parts[2])
       ELSE IF Len(parts) = 3
       THEN /\ parse(parts[2], U64_BITS).ok
            /\ ends_with_json(parts[3])
            /\ starts_with_3N(parts[3])
       ELSE FALSE

\* extract_block_metadata: the length in the name, NoLength for None; the
\* expect on the parsed length panics
extract_block_metadata(name) ==
    LET parts == split(name, << >>)
    IN IF Len(parts) = 2
       THEN [panic |-> FALSE, some |-> TRUE, length |-> NoLength]
       ELSE IF Len(parts) = 3
       THEN IF parse(parts[2], U32_BITS).ok
            THEN [panic |-> FALSE, some |-> TRUE,
                  length |-> parse(parts[2], U32_BITS).value]
            ELSE [panic |-> TRUE, some |-> FALSE, length |-> NoLength]
       ELSE [panic |-> FALSE, some |-> FALSE, length |-> NoLength]

\* the watcher checks the name of a file, and the parser takes the length
\* from the name
CheckFile ==
    /\ ~ file_check.called
    /\ file_check' = extract_block_metadata(file_check.name)
                        @@ [file_check EXCEPT
                              !.called = TRUE,
                              !.valid = is_valid_block_file(file_check.name)]
    /\ UNCHANGED << phase, tree_vars, store_vars, config, canonical_paths,
                    successive_paths, later_paths, ret, panicked,
                    restart_vars, blockchain, log_run, discovery_run, conn,
                    ipc, fast_path_vars, watch_vars, ledger_walk >>

NextFile == CheckFile

\* the names: every sequence of tokens, beside an indexer that waits
InitFile ==
    /\ InitIndexer
    /\ ~ config.length_sorted
    /\ config.canonical_update_threshold = 1
    /\ config.canonical_threshold = MAINNET_CANONICAL_THRESHOLD
    /\ later_paths = {}
    /\ discovery_run = NoDiscovery
    /\ ledger = genesis_ledger
    /\ unparsed = 0
    /\ server = NoServer
    /\ ipc = IpcActor_new
    /\ conn = NoConn
    /\ ledger_walk = NoLedgerWalk
    /\ \E n \in 0..MaxNameLen : \E name \in [1..n -> Tokens] :
            file_check = [NoFileCheck EXCEPT !.name = name]

SpecFile == InitFile /\ [][NextFile]_vars

-----------------------------------------------------------------------------
(* get_ledger_state_hash over a store that keeps the ledgers, the ledger    *)
(* diffs of the blocks and the parent hashes of the blocks in columns of    *)
(* their own.                                                               *)

\* the greatest length of the blocks of such a store
MaxWalkLength == 3

WalkBlocks == {b \in Hashes : blockchain_length[b] <= MaxWalkLength}

\* the loop of get_ledger_state_hash: while no ledger is stored for
\* curr_state_hash, the diff of the block is pushed and curr_state_hash is
\* set to the parent hash when there is one; without a diff the call
\* returns None.  With a diff and no parent hash curr_state_hash stays what
\* it is, and the loop, which reads nothing else, takes the same turn again
\* without end.
RECURSIVE get_ledger_state_hash_loop(_, _, _)
get_ledger_state_hash_loop(w, curr_state_hash, diffs) ==
    IF curr_state_hash \in w.ledgers
    THEN [terminates |-> TRUE, some |-> TRUE, diffs |-> Reverse(diffs)]
    ELSE IF curr_state_hash \in w.block_ledger_diff
    THEN IF curr_state_hash \in w.block_parent_hash
         THEN get_ledger_state_hash_loop(w, parent_hash[curr_state_hash],
                                         Append(diffs, curr_state_hash))
         ELSE [terminates |-> FALSE, some |-> FALSE,
               diffs |-> Append(diffs, curr_state_hash)]
    ELSE [terminates |-> TRUE, some |-> FALSE, diffs |-> << >>]

\* a call of get_ledger_state_hash
LedgerWalk ==
    /\ ~ ledger_walk.called
    /\ ledger_walk' =
            get_ledger_state_hash_loop(ledger_walk, ledger_walk.state_hash,
                                       << >>)
            @@ [ledger_walk EXCEPT !.called = TRUE]
    /\ UNCHANGED << phase, tree_vars, store_vars, config, canonical_paths,
                    successive_paths, later_paths, ret, panicked,
                    restart_vars, blockchain, log_run, discovery_run, conn,
                    ipc, fast_path_vars, watch_vars, file_check >>

NextLedgerWalk == LedgerWalk

\* the stores: any ledgers, ledger diffs and parent hashes of the blocks up
\* to MaxWalkLength, beside an indexer that waits
InitLedgerWalk ==
    /\ InitIndexer
    /\ ~ config.length_sorted
    /\ config.canonical_update_threshold = 1
    /\ config.canonical_threshold = MAINNET_CANONICAL_THRESHOLD
    /\ later_paths = {}
    /\ discovery_run = NoDiscovery
    /\ ledger = genesis_ledger
    /\ unparsed = 0
    /\ server = NoServer
    /\ ipc = IpcActor_new
    /\ conn = NoConn
    /\ file_check = NoFileCheck
    /\ \E ledgers \in SUBSET WalkBlocks, diff \in SUBSET WalkBlocks,
          parent \in SUBSET WalkBlocks, state_hash \in WalkBlocks :
            ledger_walk = [NoLedgerWalk EXCEPT
                                !.ledgers = ledgers,
                                !.block_ledger_diff = diff,
                                !.block_parent_hash = parent,
                                !.state_hash = state_hash]

SpecLedgerWalk == InitLedgerWalk /\ [][NextLedgerWalk]_vars

-----------------------------------------------------------------------------
(* Properties of the witness tree and of the canonicity column.            *)

\* the last step was a call of add_block_to_witness_tree that returned
Returned == ret.n > 0 /\ ret.ext # "Panic"

\* the branches of the witness tree
Branches == {root_branch} \cup Range(dangling_branches)

\* the blocks held anywhere in the witness tree
TreeBlocks == UNION {Nodes(br) : br \in Branches}

\* the canonical update threshold is low enough for every call that moves
\* the best tip to update the canonical tip
InStep == config.canonical_update_threshold <= MAINNET_CANONICAL_THRESHOLD

\* C1: an offer returns BlockNotAdded exactly when the block's length is
\* strictly below the length of the root branch's root, and such an offer
\* leaves the root branch, the dangling branches, the best tip, the
\* canonical tip, diffs_map and blocks_processed as they were.
C1_NotAddedIffBelowRoot ==
    [][ret'.n # ret.n =>
        /\ (ret'.ext = "BlockNotAdded")
            <=> (blockchain_length[ret'.block]
                    < blockchain_length[root_branch.root])
        /\ (ret'.ext = "BlockNotAdded") => UNCHANGED tree_vars]_vars

\* C1 witness: a block below the root was offered and refused
C1_Witness ==
    /\ ret.ext = "BlockNotAdded"
    /\ blockchain_length[ret.block] < blockchain_length[root_branch.root]

\* C2: a call of add_block_to_witness_tree never lowers the length of the
\* best tip, whether it merges dangling branches, prunes the root branch or
\* neither.
C2_BestTipLengthMonotone ==
    [][ret'.n # ret.n =>
        blockchain_length[best_tip'] >= blockchain_length[best_tip]]_vars

\* C2 witness: a merge of a dangling branch carried the best tip past the
\* offered block, in a root branch that has been pruned
C2_Witness ==
    /\ ret.ext = "RootComplex"
    /\ blockchain_length[best_tip] > blockchain_length[ret.block]
    /\ blockchain_length[best_tip] > blockchain_length[ret.best_tip_before]
    /\ root_branch.root # MAINNET_GENESIS_HASH

\* C3: after every offer the parent of every dangling branch's root is a
\* block held nowhere in the witness tree, and every node but the root of a
\* branch sits under its parent block in that same branch.
C3_DanglingRootsUnobserved ==
    Returned =>
        /\ \A i \in DOMAIN dangling_branches :
              parent_hash[dangling_branches[i].root] \notin TreeBlocks
        /\ \A br \in Branches : \A n \in Nodes(br) \ {br.root} :
              br.up[n] = parent_hash[n]

\* every block of the full directory went through add_blocks, from genesis,
\* under the canonical update threshold 1
AllAdded ==
    /\ ~ panicked
    /\ config.num_canonical = 0
    /\ config.canonical_update_threshold = 1
    /\ blocks_cf = Hashes

\* the greatest of all blocks, the best tip when blocks come parent first
GreatestBlock == CHOOSE b \in Hashes : \A c \in Hashes : c = b \/ Block_gt(b, c)

\* the canonical chain under GreatestBlock: its ancestor at every length
\* that lies MAINNET_CANONICAL_THRESHOLD or more below it
ExpectedCanonicity ==
    [h \in Heights |->
        IF h + MAINNET_CANONICAL_THRESHOLD <= blockchain_length[GreatestBlock]
        THEN nth_parent(GreatestBlock, blockchain_length[GreatestBlock] - h)
        ELSE NoNode]

\* the events of the run that takes the blocks parent first
ExpectedEvents ==
    {NewBlock(b) : b \in Hashes} \cup {NewLedger(MAINNET_GENESIS_HASH)}
    \cup {NewCanonicalBlock(h, ExpectedCanonicity[h]) :
            h \in {g \in Heights : ExpectedCanonicity[g] # NoNode}}
    \cup {NewLedger(ExpectedCanonicity[h]) :
            h \in {g \in Heights : /\ ExpectedCanonicity[g] # NoNode
                                    /\ g % LEDGER_CADENCE = 0}}

\* C4: whatever the order in which add_blocks takes the same blocks, the
\* run ends with the best tip, the canonical chain and the sorted event log
\* of the run that takes them parent first.
C4_OrderIndependent ==
    AllAdded =>
        /\ best_tip = GreatestBlock
        /\ canonicity_cf = ExpectedCanonicity
        /\ Range(events_cf) = ExpectedEvents
        /\ Cardinality(DOMAIN events_cf) = Cardinality(ExpectedEvents)

\* C4 reference: some order does end with that outcome
C4_Reference ==
    /\ AllAdded
    /\ best_tip = GreatestBlock
    /\ canonicity_cf = ExpectedCanonicity
    /\ Range(events_cf) = ExpectedEvents
    /\ Cardinality(DOMAIN events_cf) = Cardinality(ExpectedEvents)

\* C5: in every reachable state the canonical tip is a node of the root
\* branch, and it is the best tip or one of the best tip's ancestors.
C5_CanonicalTipUnderBestTip ==
    /\ canonical_tip \in Nodes(root_branch)
    /\ best_tip \in Nodes(root_branch)
    /\ \/ canonical_tip = best_tip
       \/ canonical_tip \in Range(ancestor_ids(root_branch, best_tip))

\* C6: after every offer the canonical tip is the k-th ancestor of the best
\* tip, k the canonical threshold of the configuration, when the best tip
\* has k ancestors in the root branch, and the root otherwise.
C6_ConfiguredThresholdAncestor ==
    (Returned /\ InStep) =>
        LET anc == ancestor_ids(root_branch, best_tip)
            k == config.canonical_threshold
        IN IF Len(anc) >= k THEN canonical_tip = anc[k]
           ELSE canonical_tip = root_branch.root

C9_CanonicalChainGapless ==
    \A h \in 1..max_canonical :
        /\ get_canonical_hash_at_height(h) # NoNode
        /\ get_canonical_hash_at_height(h) \in blocks_cf
        /\ blockchain_length[get_canonical_hash_at_height(h)] = h

\* C10: for every NewCanonicalBlock event in the log, the canonicity column
\* still holds the event's state hash at the event's height.
C10_CanonicalEventsStand ==
    \A n \in DOMAIN events_cf :
        events_cf[n].kind = "NewCanonicalBlock" =>
            get_canonical_hash_at_height(events_cf[n].blockchain_length)
                = events_cf[n].state_hash

-----------------------------------------------------------------------------
(* Properties of the event journal.                                        *)

\* the sequence numbers of the NewCanonicalBlock events of the journal
CanonicalEventSeqNums ==
    {n \in DOMAIN events_cf : events_cf[n].kind = "NewCanonicalBlock"}

\* C11: the NewCanonicalBlock events of the journal come in strictly
\* ascending height: a later one is always higher than an earlier one, so no
\* height and no block gets two of them.
C11_CanonicalEventsAscending ==
    \A m \in CanonicalEventSeqNums : \A n \in CanonicalEventSeqNums :
        m < n => events_cf[m].blockchain_length < events_cf[n].blockchain_length

\* C12: once the fast path has taken its last block, and after every offer
\* whose new canonical blocks have been stored, the stored max canonical
\* blockchain length is the length of the canonical tip and the height of
\* the latest NewCanonicalBlock event.
C12_MaxCanonicalIsTip ==
    (~ panicked /\ canonical_paths = << >>) =>
        /\ max_canonical = blockchain_length[canonical_tip]
        /\ max_canonical
            = events_cf[SetMax(CanonicalEventSeqNums)].blockchain_length

C16_NewBlockBeforeCanonical ==
    \A n \in CanonicalEventSeqNums :
        \E m \in DOMAIN events_cf :
            /\ m < n
            /\ events_cf[m] = NewBlock(events_cf[n].state_hash)

\* C16 witness: the journal holds NewCanonicalBlock events of genesis, of
\* the fast path and of an offer to the witness tree
C16_Witness ==
    /\ Returned
    /\ config.num_canonical > 0
    /\ ret.canonical_blocks # << >>
    /\ events_cf[next_event_seq_num - 1]
        = NewCanonicalBlock(blockchain_length[canonical_tip], canonical_tip)

\* the sequence numbers of the NewLedger events of the journal
LedgerEventSeqNums ==
    {n \in DOMAIN events_cf : events_cf[n].kind = "NewLedger"}

\* C17: a NewLedger event for a block of length h comes in the journal
\* before every NewCanonicalBlock event of a height above h.
C17_LedgerBeforeHigherCanonical ==
    \A m \in LedgerEventSeqNums : \A n \in CanonicalEventSeqNums :
        events_cf[n].blockchain_length
            > blockchain_length[events_cf[m].state_hash] => m < n

\* C17 witness: update_ledger_store stored the ledger of a block that an
\* offer made canonical, and a later offer journalled a higher canonical
\* block
C17_Witness ==
    /\ Returned
    /\ config.num_canonical = 0
    /\ \E m \in LedgerEventSeqNums : \E n \in CanonicalEventSeqNums :
        /\ events_cf[m].state_hash # MAINNET_GENESIS_HASH
        /\ events_cf[m].state_hash
            = get_canonical_hash_at_height(
                blockchain_length[events_cf[m].state_hash])
        /\ m < n
        /\ events_cf[n].blockchain_length
            > blockchain_length[events_cf[m].state_hash]

\* the sequence numbers of the NewBlock events for a state hash
NewBlockSeqNums(h) == {n \in DOMAIN events_cf : events_cf[n] = NewBlock(h)}

\* C14: a state hash is a key of the blocks column exactly when the journal
\* holds a NewBlock event for it, and then it holds exactly one, also after
\* set_block_canonicity and after a second add_block of the block.
C14_OneNewBlockPerBlock ==
    \A h \in Hashes :
        /\ h \in blocks_cf <=> NewBlockSeqNums(h) # {}
        /\ Cardinality(NewBlockSeqNums(h)) <= 1

\* C15: a turn of add_blocks for a block that the store already holds
\* appends no NewBlock event, and leaves the branches, the tips, diffs_map
\* and the blocks, canonicity and ledgers columns as they were.
C15_SecondInsertIdempotent ==
    [][(ret'.n # ret.n /\ ret'.block \in blocks_cf) =>
        /\ \A n \in DOMAIN events_cf' \ DOMAIN events_cf :
              events_cf'[n].kind # "NewBlock"
        /\ UNCHANGED << root_branch, dangling_branches, best_tip,
                        canonical_tip, diffs_map >>
        /\ UNCHANGED << blocks_cf, canonicity_cf, ledgers_cf >>]_vars

-----------------------------------------------------------------------------
(* Properties of a store left by a stopped process and of the sync from it. *)

\* C18: in the store that a stopped process leaves, a block is stored only
\* together with its NewBlock event beneath the advanced pointer, a
\* canonicity entry only together with its NewCanonicalBlock event, and no
\* event lies at or above the pointer
C18_BlockWriteAtomic ==
    phase = "Stopped" =>
        /\ DOMAIN events_cf = 0..(next_event_seq_num - 1)
        /\ \A b \in blocks_cf :
                \E n \in 0..(next_event_seq_num - 1) :
                    n \in DOMAIN events_cf /\ events_cf[n] = NewBlock(b)
        /\ \A len \in Heights :
                canonicity_cf[len] # NoNode =>
                    \E n \in 0..(next_event_seq_num - 1) :
                        /\ n \in DOMAIN events_cf
                        /\ events_cf[n] =
                                NewCanonicalBlock(len, canonicity_cf[len])

\* sync_from_db is over
Synced == phase = "SyncingFromDB" /\ successive_blocks = << >>

\* C20: when the sync from the store of a process that stopped inside
\* add_blocks is over, sync_from_db has returned, and the synced state has
\* the best tip and the canonical tip of that process and no diff that it
\* did not have
C20_SyncReproducesOriginal ==
    (Synced /\ original.phase = "InitializingFromBlockDir") =>
        /\ ~ panicked
        /\ best_tip = original.best_tip
        /\ canonical_tip = original.canonical_tip
        /\ diffs_map \subseteq original.diffs_map

-----------------------------------------------------------------------------
(* Properties of the block-ingestion binary.                               *)

\* C19: after a call of Blockchain::add_block whose write failed, the
\* sequence counter in memory and the stored journal_seq_key have the values
\* that the call found; and a successful call that follows a failed one
\* writes at the sequence number of the failed one
C19_FailedWriteKeepsCounter ==
    /\ blockchain.last.result = "Err" =>
            /\ blockchain.journal_seq = blockchain.last.journal_seq_before
            /\ blockchain.db.journal_seq_key =
                    blockchain.last.journal_seq_key_before
    /\ (blockchain.last.result = "Ok"
            /\ blockchain.last.failed_seq_num # NoKey) =>
            blockchain.last.seq_num = blockchain.last.failed_seq_num

-----------------------------------------------------------------------------
(* Properties of the event log test.                                       *)

\* the second run of the event log test took its last block
LogRunsOver == log_run.run = 1 /\ log_run.todo = << >>

-----------------------------------------------------------------------------
(* Properties of canonical chain discovery.                                *)

\* the paths that the call of discovery works on
FilteredPaths ==
    filtered(discovery_run.paths, discovery_run.min_len_filter,
             discovery_run.max_len_filter)

\* the lengths of a list of paths
Lengths(paths) == {blockchain_length[p] : p \in Range(paths)}

\* the lowest length of a list of paths
LowestLength(paths) ==
    CHOOSE l \in Lengths(paths) : \A m \in Lengths(paths) : l <= m

\* the paths are a contiguous set of blocks that forms a parent chain: no
\* length is missing, and every block above the lowest length has its
\* parent among them
ContiguousChain(paths) ==
    /\ paths # << >>
    /\ \A l \in LowestLength(paths)..SetMax(Lengths(paths)) :
            l \in Lengths(paths)
    /\ \A p \in Range(paths) :
            blockchain_length[p] > LowestLength(paths) =>
                parent_hash[p] \in Range(paths)

\* C22: for a contiguous parent chain of canonical threshold + 1 lengths or
\* more, discovery returns a deep canonical list that is not empty and
\* starts at the lowest length of its input
C22_DiscoverySound ==
    (/\ discovery_run.called
     /\ ContiguousChain(FilteredPaths)
     /\ Cardinality(Lengths(FilteredPaths))
            >= discovery_run.canonical_threshold + 1) =>
        /\ discovery_run.deep_canonical # << >>
        /\ blockchain_length[discovery_run.deep_canonical[1]]
                = LowestLength(FilteredPaths)

\* C22 witness: a call with a threshold above 0 on a contiguous chain with a
\* fork returned two deep canonical blocks or more
C22_Witness ==
    /\ discovery_run.called
    /\ discovery_run.canonical_threshold >= 1
    /\ ContiguousChain(FilteredPaths)
    /\ Cardinality(Lengths(FilteredPaths))
            >= discovery_run.canonical_threshold + 1
    /\ Len(FilteredPaths) > Cardinality(Lengths(FilteredPaths))
    /\ Len(discovery_run.deep_canonical) >= 2

\* the number of lengths in the lowest contiguous run of lengths
RECURSIVE RunLengths(_, _)
RunLengths(paths, l) ==
    IF l \in Lengths(paths) THEN 1 + RunLengths(paths, l + 1) ELSE 0

\* discovery declared no canonical chain: every path is recent
NoCanonicalChain ==
    /\ discovery_run.deep_canonical = << >>
    /\ discovery_run.recent = FilteredPaths
    /\ discovery_run.orphaned = << >>

\* C23: when the lowest contiguous run of lengths of the filtered paths has
\* fewer lengths than the canonical threshold + 1, discovery returns no deep
\* canonical path, every filtered path as recent and no orphaned path
C23_ShortRunNoCanonical ==
    (/\ discovery_run.called
     /\ FilteredPaths # << >>
     /\ RunLengths(FilteredPaths, LowestLength(FilteredPaths))
            < discovery_run.canonical_threshold + 1) =>
        NoCanonicalChain

\* C23 witness: a call on paths with a gap after fewer lengths than the
\* threshold + 1, and with paths above the gap
C23_Witness ==
    /\ discovery_run.called
    /\ FilteredPaths # << >>
    /\ RunLengths(FilteredPaths, LowestLength(FilteredPaths))
            < discovery_run.canonical_threshold + 1
    /\ RunLengths(FilteredPaths, LowestLength(FilteredPaths))
            < Cardinality(Lengths(FilteredPaths))
    /\ RunLengths(FilteredPaths, LowestLength(FilteredPaths)) >= 2
    /\ NoCanonicalChain

\* the witness tree root that the call found: the last deep canonical path
DiscoveredRoot ==
    discovery_run.deep_canonical[Len(discovery_run.deep_canonical)]

\* the deep canonical list is the parent chain that ends at the root,
\* lowest first
DeepIsChain ==
    \A i \in 1..(Len(discovery_run.deep_canonical) - 1) :
        discovery_run.deep_canonical[i]
            = parent_hash[discovery_run.deep_canonical[i + 1]]

\* C24: when discovery with a threshold of 1 or more found a witness tree
\* root, recent holds the paths
\* above the root's length, deep canonical is the parent chain that ends at
\* the root, orphaned holds the other paths at or beneath the root's length,
\* and every filtered path is in exactly one of the three lists
C24_ListsPartitionInput ==
    (/\ discovery_run.called
     /\ discovery_run.canonical_threshold >= 1
     /\ discovery_run.deep_canonical # << >>) =>
        /\ DeepIsChain
        /\ Range(discovery_run.recent) =
                {p \in Range(FilteredPaths) :
                    blockchain_length[p] > blockchain_length[DiscoveredRoot]}
        /\ Range(discovery_run.orphaned) =
                {p \in Range(FilteredPaths) :
                    /\ blockchain_length[p] <= blockchain_length[DiscoveredRoot]
                    /\ p \notin Range(discovery_run.deep_canonical)}
        /\ Range(discovery_run.deep_canonical) \cup Range(discovery_run.recent)
                \cup Range(discovery_run.orphaned) = Range(FilteredPaths)
        /\ Len(discovery_run.deep_canonical) + Len(discovery_run.recent)
                + Len(discovery_run.orphaned) = Len(FilteredPaths)

\* the lowest block reached from b by parent links inside the paths
RECURSIVE LowestAncestor(_, _)
LowestAncestor(paths, b) ==
    IF parent_hash[b] \in Range(paths)
    THEN LowestAncestor(paths, parent_hash[b]) ELSE b

\* discovery found a witness tree root, and the parent chain beneath the
\* root ends above the lowest length of the paths
MissingParent ==
    /\ FilteredPaths # << >>
    /\ witness_tree_root(FilteredPaths,
                         discovery_run.canonical_threshold).some
    /\ blockchain_length[LowestAncestor(FilteredPaths,
            at(FilteredPaths,
               witness_tree_root(FilteredPaths,
                                 discovery_run.canonical_threshold).fst))]
            > LowestLength(FilteredPaths)

\* C25: when a parent is missing on the way down from the witness tree
\* root, discovery returns no deep canonical path, every filtered path as
\* recent and no orphaned path
C25_MissingParentAbandons ==
    (discovery_run.called /\ MissingParent) => NoCanonicalChain

\* C25 witness: a parent was missing beneath a parent that was found, and
\* the call returned every path as recent
C25_Witness ==
    /\ discovery_run.called
    /\ MissingParent
    /\ LowestAncestor(FilteredPaths,
            at(FilteredPaths,
               witness_tree_root(FilteredPaths,
                                 discovery_run.canonical_threshold).fst))
         # at(FilteredPaths,
               witness_tree_root(FilteredPaths,
                                 discovery_run.canonical_threshold).fst)
    /\ NoCanonicalChain

\* the ancestor chain of h in the store reaches s
RECURSIVE Reaches(_, _)
Reaches(s, h) ==
    \/ h = s
    \/ /\ h \in blocks_cf
       /\ Reaches(s, parent_hash[h])

\* the blocks after s up to h, lowest first
RECURSIVE Between(_, _)
Between(s, h) ==
    IF h = s THEN << >> ELSE Append(Between(s, parent_hash[h]), h)

C27_PhaseOneWay ==
    [][phase' # phase =>
        /\ phase \in {"InitializingFromBlockDir", "Replaying",
                      "SyncingFromDB"}
        /\ phase' = "Watching"]_vars

\* C27 witness: add_blocks has ended and the watcher has offered a block
\* since
C27_Witness ==
    /\ phase = "Watching"
    /\ ret.n > 0
    /\ ret.block \notin blocks_cf

\* C28: a state hash that is a key of the blocks column stays one in every
\* later state: no step of the pipeline, pruning and reorganisations of the
\* witness tree and set_block_canonicity included, removes a block.
C28_BlockNeverDeleted == [][blocks_cf \subseteq blocks_cf']_vars

\* C28 witness: a block that went through the witness tree and was pruned
\* from it is in the store, after a call of set_block_canonicity or a second
\* add_block
C28_Witness ==
    /\ store_calls > 0
    /\ config.num_canonical = 0
    /\ blocks_cf \ TreeBlocks # {}

\* C29: a block file that cannot be parsed is skipped: the step that takes
\* it changes neither the store nor the witness tree, and the worker keeps
\* running.
C29_MalformedSkipped ==
    [][unparsed' > unparsed =>
        /\ UNCHANGED << store_vars, tree_vars >>
        /\ panicked' = panicked]_vars

\* the request carries a malformed public key, state hash or transaction
\* hash, or a height above the best tip
InvalidQuery ==
    \/ conn.command \in {"account", "snark-pk", "tx-pk"} /\ ~ conn.pk_valid
    \/ /\ conn.command \in {"block-state-hash", "snark-state-hash", "tx-pk",
                             "tx-state-hash"}
       /\ ~ conn.state_hash_valid
    \/ conn.command = "tx-pk" /\ ~ conn.end_state_hash_valid
    \/ conn.command = "tx-hash" /\ ~ conn.tx_hash_valid
    \/ /\ conn.command = "ledger-at-height"
       /\ conn.height > conn.best_tip_length

\* C30: a request with a malformed public key, state hash or transaction
\* hash, or with a height above the best tip, is answered with the text of
\* an invalid query and without any call of the store.
C30_InvalidQueryNoStoreAccess ==
    (conn.handled /\ InvalidQuery) =>
        /\ conn.response \in {"Invalid public key", "Invalid state hash",
                               "Invalid transaction hash", "Invalid query"}
        /\ conn.store_reads = << >>

\* C31: a process that has exited on SIGINT or SIGTERM has removed its
\* domain socket before.
C31_SignalRemovesSocket ==
    server.exit_code \in {SIGTERM_EXIT, SIGINT_EXIT} => ~ server.socket

\* C32: the directory of the store handle of a running connection handler
\* exists, and the primary store directory is never removed.
C32_SecondaryOutlivesHandlers ==
    /\ \A h \in ipc.handlers : h.store \in ipc.dirs
    /\ ipc.primary

\* a network name: letters, and no dash
is_network(part) == part # << >> /\ \A i \in DOMAIN part : part[i] = "m"

\* a decimal height
is_height(part) == part # << >> /\ \A i \in DOMAIN part : part[i] \in Digits

\* <state-hash>.json: 3N, letters and digits, and the extension
is_hash_json(part) ==
    /\ Len(part) >= 2
    /\ part[1] = "3N"
    /\ part[Len(part)] = ".json"
    /\ \A i \in 2..(Len(part) - 1) : part[i] \in {"m"} \cup Digits

\* the places of two dashes around a height, after a network name
height_places(name) ==
    { p \in (DOMAIN name) \X (DOMAIN name) :
        /\ p[1] < p[2]
        /\ name[p[1]] = "-"
        /\ name[p[2]] = "-"
        /\ is_network(SubSeq(name, 1, p[1] - 1))
        /\ is_height(SubSeq(name, p[1] + 1, p[2] - 1)) }

\* <network>-<height>-<state-hash>.json
first_pattern(name) ==
    \E p \in height_places(name) :
        is_hash_json(SubSeq(name, p[2] + 1, Len(name)))

\* the height in a name of the first pattern
embedded_height(name) ==
    LET p == CHOOSE q \in height_places(name) : TRUE
    IN decimal(SubSeq(name, p[1] + 1, p[2] - 1))

\* <network>-<state-hash>.json
second_pattern(name) ==
    \E i \in DOMAIN name :
        /\ name[i] = "-"
        /\ is_network(SubSeq(name, 1, i - 1))
        /\ is_hash_json(SubSeq(name, i + 1, Len(name)))

\* C33: is_valid_block_file accepts every name of the two patterns and
\* rejects the names without the extension .json or without 3N; for every
\* accepted name the length extraction returns the height of a name of the
\* first pattern and no length for a name of the second pattern.
C33_FileNameLength ==
    file_check.called =>
        /\ (second_pattern(file_check.name) \/ first_pattern(file_check.name))
              => file_check.valid
        /\ ((\A i \in DOMAIN file_check.name : file_check.name[i] # ".json")
               \/ (\A i \in DOMAIN file_check.name : file_check.name[i] # "3N"))
              => ~ file_check.valid
        /\ file_check.valid =>
              /\ ~ file_check.panic
              /\ file_check.some
              /\ first_pattern(file_check.name)
                    => file_check.length = embedded_height(file_check.name)
              /\ second_pattern(file_check.name)
                    => file_check.length = NoLength

\* the node sets of a list of branches
branch_sets(ds) == {Nodes(ds[i]) : i \in DOMAIN ds}

\* every node but the root hangs under the block that is its parent
well_formed(br) ==
    /\ br.up[br.root] = NoNode
    /\ \A n \in Nodes(br) \ {br.root} : br.up[n] = parent_hash[n]

\* the dangling branches whose root has the block b as its parent
child_branches(b) ==
    {i \in DOMAIN dangling_branches :
        parent_hash[dangling_branches[i].root] = b}

\* the dangling branches that hold the parent of the block b
parent_branches(b) ==
    {i \in DOMAIN dangling_branches :
        parent_hash[b] \in Nodes(dangling_branches[i])}

\* a list of branches without the branches at the places idxs
without(ds, idxs) ==
    [n \in 1..(Len(ds) - Cardinality(idxs)) |->
        ds[ascending(DOMAIN ds \ idxs)[n]]]

\* the dangling list after the block b has extended the branch at e and
\* the branches at merged have been merged into it, as node sets
dangling_after(b, e, merged) ==
    (branch_sets(dangling_branches)
        \ {Nodes(dangling_branches[i]) : i \in merged \cup {e}})
    \cup {UNION {Nodes(dangling_branches[i]) : i \in merged \cup {e}}
            \cup {b}}

\* a call of add_block_to_witness_tree that admitted its block
admitted_step ==
    /\ ret'.n = ret.n + 1
    /\ ret'.ext \notin {"BlockNotAdded", "Panic"}

\* C34: a call of add_block_to_witness_tree that admits a block adds that
\* block as one new node (a root extension may then prune the root branch)
\* and returns RootSimple when the parent is in the root branch and no
\* dangling root is a child of the block, RootComplex when the dangling
\* branches whose root is a child of the block are merged into the root
\* branch and leave the dangling list, DanglingSimpleForward or
\* DanglingSimpleReverse when one dangling branch gets the block under one
\* of its nodes or as its new root and no other branch is merged,
\* DanglingComplex when other dangling branches are merged into the
\* extended one, and DanglingNew, with a new branch of the one block, when
\* the block extends nothing.
C34_ExtensionClassified ==
    [][admitted_step =>
        LET b == ret'.block
            in_root == parent_hash[b] \in Nodes(root_branch)
            kids == child_branches(b)
            kid_nodes == UNION {Nodes(dangling_branches[i]) : i \in kids}
            pruned == root_branch'.root # root_branch.root
        IN /\ b \notin TreeBlocks
           /\ b \in TreeBlocks' \/ pruned
           /\ TreeBlocks' \subseteq TreeBlocks \cup {b}
           /\ ~ pruned => TreeBlocks' = TreeBlocks \cup {b}
           /\ well_formed(root_branch')
           /\ \A i \in DOMAIN dangling_branches' :
                    well_formed(dangling_branches'[i])
           /\ ret'.ext = "RootSimple" <=> (in_root /\ kids = {})
           /\ ret'.ext = "RootComplex" <=> (in_root /\ kids # {})
           /\ in_root =>
                /\ dangling_branches' = without(dangling_branches, kids)
                /\ Nodes(root_branch') \subseteq
                        Nodes(root_branch) \cup {b} \cup kid_nodes
                /\ ~ pruned =>
                        Nodes(root_branch') =
                            Nodes(root_branch) \cup {b} \cup kid_nodes
           /\ ~ in_root => root_branch' = root_branch
           /\ ret'.ext = "DanglingNew" <=>
                (~ in_root /\ parent_branches(b) \cup kids = {})
           /\ ret'.ext = "DanglingNew" =>
                dangling_branches' = Append(dangling_branches, Branch_new(b))
           /\ ret'.ext = "DanglingSimpleForward" =>
                /\ kids = {}
                /\ Len(dangling_branches') = Len(dangling_branches)
                /\ \E e \in parent_branches(b) :
                        branch_sets(dangling_branches')
                            = dangling_after(b, e, {})
           /\ ret'.ext = "DanglingSimpleReverse" =>
                /\ Cardinality(kids) = 1
                /\ Len(dangling_branches') = Len(dangling_branches)
                /\ \E e \in kids :
                        /\ dangling_branches'[e].root = b
                        /\ branch_sets(dangling_branches')
                                = dangling_after(b, e, {})
           /\ ret'.ext = "DanglingComplex" =>
                \E e \in parent_branches(b) \cup kids :
                    /\ kids \ {e} # {}
                    /\ Len(dangling_branches') =
                            Len(dangling_branches)
                                - Cardinality(kids \ {e})
                    /\ branch_sets(dangling_branches')
                            = dangling_after(b, e, kids \ {e})]_vars

\* a block has joined two dangling branches, or a dangling branch and its
\* own children
C34_Witness ==
    /\ ret.ext = "DanglingComplex"
    /\ \E i \in DOMAIN dangling_branches :
            /\ ret.block \in Nodes(dangling_branches[i])
            /\ Cardinality(Nodes(dangling_branches[i])) >= 3

\* the blocks of the store are one chain: no two of them of one length
one_chain ==
    \A x, y \in blocks_cf :
        blockchain_length[x] = blockchain_length[y] => x = y

\* discovery has left out no path of the directory
all_paths_listed == blocks_cf \cup later_paths = Hashes

extended_height ==
    LET b == ret'.block
        extended == Nodes(root_branch) \cup {b}
                       \cup UNION {Nodes(dangling_branches[i]) :
                                     i \in child_branches(b)}
    IN 1 + SetMax({blockchain_length[n] : n \in extended})
         - blockchain_length[root_branch.root]

\* a call of add_block_to_witness_tree that extended the root branch
root_extension_step ==
    /\ ret'.n = ret.n + 1
    /\ ret'.ext \in {"RootSimple", "RootComplex"}

\* the root branch of the next state holds no node more than k below the
\* best tip
pruned_to_frontier ==
    \A n \in Nodes(root_branch') :
        blockchain_length[n]
            >= blockchain_length[best_tip'] - MAINNET_TRANSITION_FRONTIER_K

C37_DiffPresentWhenApplied ==
    ~ (/\ ret.ext = "Panic"
       /\ parent_hash[ret.block] \in Nodes(root_branch))

\* C38: no step of sync_from_db changes the store: the event log, the next
\* sequence number and the columns of blocks, canonicity and ledgers are
\* after the step what they were before it.
C38_SyncLeavesStore ==
    [][phase' = "SyncingFromDB" =>
            /\ events_cf' = events_cf
            /\ next_event_seq_num' = next_event_seq_num
            /\ blocks_cf' = blocks_cf
            /\ canonicity_cf' = canonicity_cf
            /\ max_canonical' = max_canonical
            /\ ledgers_cf' = ledgers_cf]_vars

\* C39: a call of Blockchain::add_block that writes the journal writes at
\* a sequence number above every sequence number of the journal, and leaves
\* every entry of the journal as it was, also in the first call after a
\* restart.
C39_JournalNeverOverwritten ==
    [][blockchain'.last.result = "Ok" /\ blockchain'.received # blockchain.received =>
            /\ \A n \in DOMAIN blockchain.db.journal :
                    /\ n < blockchain'.last.seq_num
                    /\ blockchain'.db.journal[n] = blockchain.db.journal[n]
            /\ blockchain'.last.seq_num \in DOMAIN blockchain'.db.journal
      ]_vars

\* C40: every call of get_ledger_state_hash terminates, also when the walk
\* reaches a block with a stored ledger diff and no recorded parent hash.
C40_LedgerWalkTerminates ==
    ledger_walk.called => ledger_walk.terminates

====
